---- MODULE Spec2Model ----
(***************************************************************************)
(* Transmittal processing pipeline of the drawing coordinator module:      *)
(*   - process_transmittal (tool_process_transmittal.py) with the stages   *)
(*     of BackendFacade (backend_facade.py), ZipHandler, TypeDetector;     *)
(*   - FileClassifier.classify (file_classifier.py) over a working tree.   *)
(*   - DistributionHandler (distribution_handler.py) over network roots.   *)
(*   - the naming functions of FolderBuilder (folder_builder.py) and the   *)
(*     detectors of TypeDetector (type_detector.py) over filenames.        *)
(* The specifications of the module: Spec (one call of the pipeline),      *)
(* SpecClassify (a FileClassifier object over a bounded tree),             *)
(* SpecDistribute (a DistributionHandler over a built output folder),      *)
(* SpecNames (one filename through _copy_drawings or detect_types),        *)
(* SpecEmail (one email through the methods of EmailPatternDetector),      *)
(* SpecCover (PdfHandler.create_cover_sheet over classified drawings),     *)
(* SpecBuild (the model and misc steps of build_folder_structure),         *)
(* SpecCalls (concurrent calls of process_transmittal and their working    *)
(* directories) and SpecExtract (ZipHandler.extract over nested archives;  *)
(* SpecExtractFair adds the progress of the running call).                 *)
(***************************************************************************)
EXTENDS Naturals, Integers, Sequences, FiniteSets, TLC

VARIABLES
    \* ---- pipeline: inputs of one call ----
    args,              \* arguments of process_transmittal
    zipFile,           \* what zip_path names on disk (kind, suffix, name/content matches)
    DISTRIBUTION_ENABLED, \* config.py feature flag
    \* ---- pipeline: state of the call ----
    pc,                \* position inside process_transmittal
    job_data,          \* the mutable job record
    log,               \* HeadlessLogger._entries
    status,            \* HeadlessLogger._status
    result,            \* the returned dict (NoResult until the call returns)
    err,               \* the exception being propagated ("none" if none)
    failedAt,          \* stage that raised ("none" if none)
    ran,               \* history: stages entered, in order
    handlerTempDir,    \* ZipHandler.temp_dir of the extracting handler
    mkdtempCount,      \* number of tempfile.mkdtemp calls so far
    \* ---- pipeline: filesystem ----
    tempDirs,          \* TransmitPro_* directories existing under the temp root
    outputRootExists,  \* output_path exists
    builtOutput,       \* what FolderBuilder built under output_path
    netDirs,           \* directories existing under the network roots
    \* ---- classifier ----
    tree,              \* the working directory tree
    categories,        \* FileClassifier.categories
    classifyRuns,      \* number of classify() calls on this object
    classifyCalls,     \* number of classify() calls on the tree, on any object
    firstMapping,      \* mapping returned by the first classify() call
    \* ---- distribution router ----
    dh,                \* the DistributionHandler object (position, type, destinations)
    built,             \* files of the built output folder, by category folder
    net,               \* directories existing under the network roots
    netFiles,          \* files and folders copied under the network roots
    dResult,           \* what distribute() returned
    dLog,              \* log entries appended by the handler
    \* ---- filenames ----
    fname,             \* the filename, a sequence of characters
    fkind,             \* "drawing" (a classified PDF) or "archive" (the zip)
    fcat,              \* category of the drawing
    flisting,          \* names the archive lists, in order
    fpc,               \* what has been done with the name
    fcopy,            \* folder and name of the copy FolderBuilder makes
    restripped,        \* _strip_revision of the copy's name
    detected,          \* what TypeDetector finds in the archive filename
    \* ---- email triage ----
    email,             \* what the three sources of one email yield
    eresult,           \* the detection result returned
    epc,               \* which detector method produced eresult
    \* ---- cover sheet ----
    coverDrawings,     \* category -> the classified PDFs (filename stems), as listed
    merged,            \* what PdfMerger was given, in order
    coverPc,           \* outcome of create_cover_sheet
    \* ---- misc area of the output folder ----
    misc,              \* classified_files of the categories model, other, zips
    unreadable,        \* files shutil.copy2 fails on
    outDirs,           \* folders of the structure that exist
    outFiles,          \* <<folder, name>> of every copy made
    bLog,              \* log entries of the builder
    bpc,               \* position inside build_folder_structure
    \* ---- concurrent calls ----
    procs,             \* call -> position, job_data["temp_dir"] and outcome of that call
    tmpfs,             \* the TransmitPro_* directories that exist
    \* ---- extraction of nested archives ----
    xtop,              \* the archive given to ZipHandler
    xfs,               \* the working directory: path -> directory, file or archive
    xstack,            \* the active calls of _extract_nested_zips, innermost last
    xlog,              \* one entry per nested archive the loop handled
    xpc                \* position inside ZipHandler.extract

pipeVars == <<args, zipFile, DISTRIBUTION_ENABLED, pc, job_data, log, status,
              result, err, failedAt, ran, handlerTempDir, mkdtempCount,
              tempDirs, outputRootExists, builtOutput, netDirs>>
classVars == <<tree, categories, classifyRuns, classifyCalls, firstMapping>>
distVars == <<dh, built, net, netFiles, dResult, dLog>>
nameVars == <<fname, fkind, fcat, flisting, fpc, fcopy, restripped, detected>>
emailVars == <<email, eresult, epc>>
coverVars == <<coverDrawings, merged, coverPc>>
buildVars == <<misc, unreadable, outDirs, outFiles, bLog, bpc>>
callVars == <<procs, tmpfs>>
extractVars == <<xtop, xfs, xstack, xlog, xpc>>
extraVars == <<emailVars, coverVars, buildVars, callVars, extractVars>>
coreVars == <<pipeVars, classVars, distVars, nameVars>>
unitVars == <<distVars, nameVars, extraVars>>
vars == <<pipeVars, classVars, unitVars>>

----------------------------------------------------------------------------
(* Bounds *)

MaxScore == 1      \* content-scan family scores range over 0..MaxScore
MaxNodes == 4      \* entries in the working tree
MaxRuns  == 2      \* classify() calls on one FileClassifier
MaxStems == 2      \* distinct filename stems of the nc1/dxf files
MaxTokens == 3     \* tokens a generated filename stem is put together from
MaxEntries == 1    \* names in the listing of the archive

----------------------------------------------------------------------------
(* Values *)

None        == "None"          \* Python None
UNKNOWN     == "UNKNOWN"
NoDir       == 0               \* no directory
NoResult    == [success |-> "unset"]

\* TypeDetector._get_current_year
CurrentYear == "2026"

Range(s) == {s[i] : i \in 1..Len(s)}

Entry(level, message) == [level |-> level, message |-> message]

\* the part of HeadlessLogger.append_log_action that changes state
\* a logger that calls clear() (logger.py 48-50) before every append
append_log_action_clearing(entries, message, level) ==
    <<Entry(level, message)>>

append_log_action(entries, message, level) == Append(entries, Entry(level, message))

ErrorsOf(entries)   == SelectSeq(entries, LAMBDA e : e.level = "Error")
WarningsOf(entries) == SelectSeq(entries, LAMBDA e : e.level = "Warning")

\* log_summary of both return paths
LogSummary(entries) ==
    [total_entries |-> Len(entries),
     errors        |-> ErrorsOf(entries),
     warnings      |-> WarningsOf(entries)]

----------------------------------------------------------------------------
(* Metadata detection (type_detector.py) *)

RECURSIVE FirstNonYear(_)
\* the loop "for match in matches: if match == year: continue; detected = match; break"
FirstNonYear(matches) ==
    IF matches = <<>> THEN UNKNOWN
    ELSE IF Head(matches) = CurrentYear THEN FirstNonYear(Tail(matches))
    ELSE Head(matches)

RECURSIVE ScanContentsForJobNumber(_)
\* _scan_contents_for_job_number: first file with a non-year 4-digit run
ScanContentsForJobNumber(files) ==
    IF files = <<>> THEN UNKNOWN
    ELSE IF FirstNonYear(Head(files)) # UNKNOWN THEN FirstNonYear(Head(files))
    ELSE ScanContentsForJobNumber(Tail(files))

NameJob(z) == FirstNonYear(z.nameRuns)

detect_job_number(z) ==
    IF NameJob(z) # UNKNOWN THEN NameJob(z)
    ELSE ScanContentsForJobNumber(z.contentRuns)

\* _scan_contents_for_type: strictly higher family score wins
ScanContentsForType(z) ==
    IF z.ifaScore > z.iffScore /\ z.ifaScore > 0 THEN "IFA"
    ELSE IF z.iffScore > z.ifaScore /\ z.iffScore > 0 THEN "IFF"
    ELSE UNKNOWN

detect_type(z) ==
    IF "IFA" \in z.nameType THEN "IFA"
    ELSE IF "IFF" \in z.nameType THEN "IFF"
    ELSE ScanContentsForType(z)

\* nameTrans / contentTrans: the rendered first TRANS_REGEX match, None = no match
detect_transmittal_number(z) ==
    IF z.nameTrans # None THEN z.nameTrans
    ELSE IF z.contentTrans # None THEN z.contentTrans
    ELSE UNKNOWN

\* every content scan constructs ZipHandler(zip_path), whose __init__ calls mkdtemp
ContentScans(z) ==
    (IF z.nameType = {} THEN 1 ELSE 0)
  + (IF z.nameTrans = None THEN 1 ELSE 0)
  + (IF NameJob(z) = UNKNOWN THEN 1 ELSE 0)

----------------------------------------------------------------------------
(* Pipeline inputs *)

ZipNameRuns    == {<<>>, <<CurrentYear>>, <<"6516">>, <<CurrentYear, "6516">>}
ZipContentRuns == {<<>>, << <<CurrentYear>>, <<"7001">> >>, << <<>>, <<CurrentYear>> >>}

ZipFiles ==
    {z \in [kind         : {"missing", "dir", "file"},
            suffixIsZip  : BOOLEAN,
            wellFormed   : BOOLEAN,
            nameRuns     : ZipNameRuns,
            contentRuns  : ZipContentRuns,
            nameType     : SUBSET {"IFA", "IFF"},
            ifaScore     : 0..MaxScore,
            iffScore     : 0..MaxScore,
            nameTrans    : {None, "T077"},
            contentTrans : {None, "T005"}] :
        \* only a regular file can be a well-formed archive
        z.wellFormed => z.kind = "file"}

Args == [job_number : {None, "1234"}, distribute_data : BOOLEAN]

\* categories of the classified set that the pipeline model tells apart
PipelineCategories == {"erection", "fab", "nc1"}

InitJobData ==
    [job_number          |-> None,
     transmittal_type    |-> None,
     transmittal_number  |-> None,
     temp_dir            |-> NoDir,
     classified          |-> None,
     final_output_folder |-> None,
     distribution_result |-> None]

NoTree == [n |-> 0, parent |-> <<>>, name |-> <<>>]
NoCategories == <<>>

ClassifierIdle ==
    /\ tree = NoTree
    /\ categories = NoCategories
    /\ classifyRuns = 0
    /\ classifyCalls = 0
    /\ firstMapping = NoCategories

NoHandler == [pc |-> "none"]

DistributorIdle ==
    /\ dh = NoHandler
    /\ built = <<>>
    /\ net = {}
    /\ netFiles = {}
    /\ dResult = None
    /\ dLog = <<>>

NoCopy == [dir |-> <<>>, name |-> <<>>]
NoDetection == [transmittal_type |-> "none", transmittal_number |-> <<>>, job_number |-> <<>>, log |-> <<>>]

NamesIdle ==
    /\ fname = <<>>
    /\ fkind = "none"
    /\ fcat = "none"
    /\ flisting = <<>>
    /\ fpc = "idle"
    /\ fcopy = NoCopy
    /\ restripped = <<>>
    /\ detected = NoDetection

NoEmail == [subject |-> None]

EmailIdle ==
    /\ email = NoEmail
    /\ eresult = None
    /\ epc = "idle"

CoverIdle ==
    /\ coverDrawings = <<>>
    /\ merged = <<>>
    /\ coverPc = "idle"

BuildIdle ==
    /\ misc = <<>>
    /\ unreadable = {}
    /\ outDirs = {}
    /\ outFiles = {}
    /\ bLog = <<>>
    /\ bpc = "idle"

CallsIdle ==
    /\ procs = <<>>
    /\ tmpfs = {}

ExtractIdle ==
    /\ xtop = {}
    /\ xfs = <<>>
    /\ xstack = <<>>
    /\ xlog = <<>>
    /\ xpc = "idle"

ExtraIdle == EmailIdle /\ CoverIdle /\ BuildIdle /\ CallsIdle /\ ExtractIdle

UnitsIdle == DistributorIdle /\ NamesIdle /\ ExtraIdle

Init ==
    /\ args \in Args
    /\ zipFile \in ZipFiles
    /\ DISTRIBUTION_ENABLED \in BOOLEAN
    /\ pc = "start"
    /\ job_data = [InitJobData EXCEPT !.job_number = args.job_number]
    /\ log = <<>>
    /\ status = "Idle"
    /\ result = NoResult
    /\ err = "none"
    /\ failedAt = "none"
    /\ ran = <<>>
    /\ handlerTempDir = NoDir
    /\ mkdtempCount = 0
    /\ tempDirs = {}
    /\ outputRootExists = FALSE
    /\ builtOutput = None
    /\ netDirs = {}
    /\ ClassifierIdle
    /\ UnitsIdle

----------------------------------------------------------------------------
(* process_transmittal: exception propagation *)

\* a variant whose try block starts after input validation
InsideTryAfterValidation(stage) == stage # "validate"

\* the try block of process_transmittal encloses validation and every stage
InsideTry(stage) == TRUE

Raise(stage, e) ==
    /\ err' = e
    /\ failedAt' = stage
    /\ pc' = IF InsideTry(stage) THEN "except" ELSE "raised"

NoRaise == UNCHANGED <<err, failedAt>>

\* a variant in which build-cover-sheet is followed directly by distribute
PipelineOrderSkipsFinalize ==
    <<"extract", "detect", "resolve", "classify", "build", "cover",
      "distribute", "cleanup", "finish">>

\* statement order of the try block: STEP 1 .. STEP 10, then the success response
PipelineOrder ==
    <<"extract", "detect", "resolve", "classify", "build", "cover", "finalize",
      "distribute", "cleanup", "finish">>

StageAfter(stage) ==
    PipelineOrder[(CHOOSE i \in 1..Len(PipelineOrder) : PipelineOrder[i] = stage) + 1]

Falsy(v) == v = None \/ v = ""

inputVars == <<args, zipFile, DISTRIBUTION_ENABLED>>

----------------------------------------------------------------------------
(* process_transmittal: logger/job record set-up, input validation, output root *)

ValidateInputs ==
    /\ pc = "start"
    /\ LET l0 == append_log_action(
                    append_log_action(log, "output path", "Info"),
                    "Starting transmittal processing pipeline", "Info")
       IN  IF zipFile.kind = "missing" THEN
               /\ Raise("validate", "FileNotFoundError")
               /\ log' = l0
               /\ UNCHANGED outputRootExists
           ELSE IF ~zipFile.suffixIsZip THEN
               /\ Raise("validate", "ValueError")
               /\ log' = l0
               /\ UNCHANGED outputRootExists
           ELSE \E mkdirOk \in BOOLEAN :
               IF mkdirOk THEN
                   /\ outputRootExists' = TRUE
                   /\ log' = append_log_action(l0, "Output directory ready", "Info")
                   /\ pc' = Head(PipelineOrder)
                   /\ NoRaise
               ELSE
                   /\ Raise("validate", "OSError")
                   /\ log' = l0
                   /\ UNCHANGED outputRootExists
    /\ UNCHANGED <<inputVars, job_data, status, result, ran, handlerTempDir,
                   mkdtempCount, tempDirs, builtOutput, netDirs, classVars, unitVars>>

----------------------------------------------------------------------------
(* STEP 1: facade.extract_zip -> ZipHandler.__init__ (mkdtemp) and extract *)

ExtractZip ==
    /\ pc = "extract"
    /\ LET d  == mkdtempCount + 1
           l0 == append_log_action(log, "Step 1: Extracting ZIP", "Info")
       IN  /\ mkdtempCount' = d
           /\ handlerTempDir' = d
           /\ tempDirs' = tempDirs \cup {d}
           /\ ran' = Append(ran, "extract")
           /\ IF zipFile.kind = "file" /\ zipFile.wellFormed THEN
                  \E ioOk \in BOOLEAN :
                      IF ioOk THEN
                          /\ job_data' = [job_data EXCEPT !.temp_dir = d]
                          /\ status' = "Zip extracted successfully"
                          /\ log' = append_log_action(l0, "Zip extracted successfully", "Success")
                          /\ pc' = StageAfter("extract")
                          /\ NoRaise
                      ELSE
                          /\ status' = "Error"
                          /\ log' = append_log_action(l0, "Extraction error", "Error")
                          /\ Raise("extract", "OSError")
                          /\ UNCHANGED job_data
              ELSE IF zipFile.kind = "file" THEN
                  /\ status' = "Error: Invalid ZIP file"
                  /\ log' = append_log_action(l0, "Error: Invalid ZIP file", "Error")
                  /\ Raise("extract", "BadZipFile")
                  /\ UNCHANGED job_data
              ELSE
                  \* zipfile.ZipFile on a directory: IsADirectoryError / PermissionError
                  /\ status' = "Error"
                  /\ log' = append_log_action(l0, "Extraction error", "Error")
                  /\ Raise("extract", "OSError")
                  /\ UNCHANGED job_data
    /\ UNCHANGED <<inputVars, result, outputRootExists, builtOutput, netDirs, classVars, unitVars>>

----------------------------------------------------------------------------
(* STEP 2: facade.detect_types; the detected values overwrite the job record *)

ScanLog(entries, did, message) ==
    IF did THEN append_log_action(entries, message, "Info") ELSE entries

DetectTypes ==
    /\ pc = "detect"
    /\ LET k == ContentScans(zipFile)
       IN  /\ mkdtempCount' = mkdtempCount + k
           /\ tempDirs' = tempDirs \cup ((mkdtempCount + 1)..(mkdtempCount + k))
    /\ job_data' = [job_data EXCEPT
                       !.transmittal_type   = detect_type(zipFile),
                       !.transmittal_number = detect_transmittal_number(zipFile),
                       !.job_number         = detect_job_number(zipFile)]
    /\ LET l0 == append_log_action(log, "Step 2: Detecting transmittal metadata", "Info")
           l1 == ScanLog(l0, zipFile.nameType = {}, "Type detected via contents")
           l2 == append_log_action(l1, "Detected type", "Success")
           l3 == ScanLog(l2, zipFile.nameTrans = None, "Detected transmittal number from ZIP contents")
       IN  log' = ScanLog(l3, NameJob(zipFile) = UNKNOWN, "Job number detected via contents")
    /\ ran' = Append(ran, "detect")
    /\ pc' = StageAfter("detect")
    /\ NoRaise
    /\ UNCHANGED <<inputVars, status, result, handlerTempDir, outputRootExists,
                   builtOutput, netDirs, classVars, unitVars>>

----------------------------------------------------------------------------
(* STEP 3/4: missing job number, missing transmittal number *)

TransmittalWarning(entries, jd) ==
    IF jd.transmittal_number = UNKNOWN
    THEN append_log_action(entries, "Warning: Transmittal number could not be detected", "Warning")
    ELSE entries

\* a variant that forgets the "UNKNOWN" sentinel of the detector
JobNumberMissingIgnoresSentinel(jd) == Falsy(jd.job_number)

\* "if not job_data.get("job_number") or job_data["job_number"] == "UNKNOWN"
JobNumberMissing(jd) == Falsy(jd.job_number) \/ jd.job_number = UNKNOWN

ResolveJobNumber ==
    /\ pc = "resolve"
    /\ ran' = Append(ran, "resolve")
    /\ IF JobNumberMissing(job_data) THEN
           IF ~Falsy(args.job_number) THEN
               /\ job_data' = [job_data EXCEPT !.job_number = args.job_number]
               /\ log' = TransmittalWarning(
                            append_log_action(log, "Using provided job number", "Info"),
                            job_data)
               /\ pc' = StageAfter("resolve")
               /\ NoRaise
           ELSE
               /\ Raise("resolve", "ValueError")
               /\ UNCHANGED <<job_data, log>>
       ELSE
           /\ log' = TransmittalWarning(log, job_data)
           /\ pc' = StageAfter("resolve")
           /\ NoRaise
           /\ UNCHANGED job_data
    /\ UNCHANGED <<inputVars, status, result, handlerTempDir, mkdtempCount, tempDirs,
                   outputRootExists, builtOutput, netDirs, classVars, unitVars>>

----------------------------------------------------------------------------
(* STEP 5: facade.classify_files. The content of the working tree is an     *)
(* input: here it is the set of categories that receive entries (the       *)
(* classifier itself is modelled under SpecClassify).                      *)

ClassifyFiles ==
    /\ pc = "classify"
    /\ ran' = Append(ran, "classify")
    /\ LET l0 == append_log_action(log, "Step 3: Classifying files", "Info")
       IN  \/ \E cats \in SUBSET PipelineCategories :
                  /\ job_data' = [job_data EXCEPT !.classified = cats]
                  /\ log' = append_log_action(l0, "Classified files into categories", "Success")
                  /\ pc' = StageAfter("classify")
                  /\ NoRaise
           \/ \* an unguarded filesystem call of classify() raises
              /\ Raise("classify", "OSError")
              /\ log' = l0
              /\ UNCHANGED job_data
    /\ UNCHANGED <<inputVars, status, result, handlerTempDir, mkdtempCount, tempDirs,
                   outputRootExists, builtOutput, netDirs, classVars, unitVars>>

----------------------------------------------------------------------------
(* STEP 6: facade.build_output -> FolderBuilder *)

\* FolderBuilder.__init__: job bucket of the base path
JobBucket(job_number) ==
    IF Falsy(job_number) THEN "Unknown Job Number" ELSE job_number

BuildOutput ==
    /\ pc = "build"
    /\ ran' = Append(ran, "build")
    /\ LET l0   == append_log_action(log, "Step 4: Building output folder structure", "Info")
           base == <<JobBucket(job_data.job_number), job_data.transmittal_number,
                     job_data.transmittal_type = "IFA">>
       IN  \/ /\ builtOutput' = [base        |-> base,
                                 categories  |-> job_data.classified,
                                 cover_sheet |-> FALSE,
                                 xml_patched |-> FALSE]
              /\ job_data' = [job_data EXCEPT !.final_output_folder = base]
              /\ log' = append_log_action(l0, "Copied all revisions", "Success")
              /\ status' = "Revisions Backup - Complete"
              /\ pc' = StageAfter("build")
              /\ NoRaise
           \/ \* output_dir.mkdir in FolderBuilder.__init__ raises
              /\ Raise("build", "OSError")
              /\ log' = l0
              /\ UNCHANGED <<builtOutput, job_data, status>>
    /\ UNCHANGED <<inputVars, result, handlerTempDir, mkdtempCount, tempDirs,
                   outputRootExists, netDirs, classVars, unitVars>>

----------------------------------------------------------------------------
(* STEP 7: facade.create_cover_sheet -> PdfHandler.create_cover_sheet *)

CreateCoverSheet ==
    /\ pc = "cover"
    /\ ran' = Append(ran, "cover")
    /\ LET l0 == append_log_action(log, "Step 5: Creating cover sheet PDF", "Info")
       IN  \/ /\ builtOutput' = [builtOutput EXCEPT !.cover_sheet = TRUE]
              /\ log' = append_log_action(l0, "Created Cover Sheet", "Success")
              /\ pc' = StageAfter("cover")
              /\ NoRaise
           \/ \* PdfMerger.append / PdfReader raises on an unreadable PDF
              /\ Raise("cover", "PdfReadError")
              /\ log' = l0
              /\ UNCHANGED builtOutput
    /\ UNCHANGED <<inputVars, job_data, status, result, handlerTempDir, mkdtempCount,
                   tempDirs, outputRootExists, netDirs, classVars, unitVars>>

----------------------------------------------------------------------------
(* STEP 8: facade.finalize_output (final fab check, patch_xml_files) *)

FinalizeOutput ==
    /\ pc = "finalize"
    /\ ran' = Append(ran, "finalize")
    /\ LET l0 == append_log_action(log, "Step 6: Finalizing output", "Info")
       IN  \/ /\ builtOutput' =
                    IF job_data.final_output_folder # None
                    THEN [builtOutput EXCEPT !.xml_patched = TRUE]
                    ELSE builtOutput
              /\ log' = append_log_action(
                            IF job_data.final_output_folder # None
                            THEN append_log_action(l0, "XML patching", "Info")
                            ELSE l0,
                            "Output Finalized..", "Success")
              /\ pc' = StageAfter("finalize")
              /\ NoRaise
           \/ \* fab_folder.glob / import_dir.rglob raises
              /\ Raise("finalize", "OSError")
              /\ log' = l0
              /\ UNCHANGED builtOutput
    /\ UNCHANGED <<inputVars, job_data, status, result, handlerTempDir, mkdtempCount,
                   tempDirs, outputRootExists, netDirs, classVars, unitVars>>

----------------------------------------------------------------------------
(* STEP 9: distribution, gated by the caller's flag and the config flag *)

\* a variant whose allow-list is the full category set for every delivery type
AllowedCategoriesFull(transmittal_type) ==
    {"fab", "erection", "field", "parts", "void",
     "nc1", "dxf", "nc_dxf", "enc", "zeman"}

\* DistributionHandler._get_allowed_categories
AllowedCategories(transmittal_type) ==
    IF transmittal_type = "IFA" THEN {"erection"}
    ELSE {"fab", "erection", "field", "parts", "void",
          "nc1", "dxf", "nc_dxf", "enc", "zeman"}

\* DistributionHandler._discover_nc_dest default, created by _discover_enc_dest
NcJobFolder(job_number) == <<"NC Files", job_number>>

\* DistributionHandler._routing_table
Route(category, job_number) ==
    CASE category = "fab"      -> <<"Shop Drawings", job_number, "Drawings/Fabrication">>
      [] category = "erection" -> <<"Shop Drawings", job_number, "Drawings/ESheets">>
      [] OTHER                 -> NcJobFolder(job_number)

\* a variant that consults the caller's flag only
DistributeGuardCallerOnly == args.distribute_data

\* the guard of the distribute branch
DistributeGuard == args.distribute_data /\ DISTRIBUTION_ENABLED

DistributeFiles ==
    /\ pc = "distribute"
    /\ DistributeGuard
    /\ ran' = Append(ran, "distribute")
    /\ LET l0 == append_log_action(log, "Step 7: Distributing files to destinations", "Info")
           routed == job_data.classified \cap AllowedCategories(job_data.transmittal_type)
       IN  \/ /\ netDirs' = netDirs \cup {NcJobFolder(job_data.job_number)}
                             \cup {Route(c, job_data.job_number) : c \in routed}
              /\ job_data' = [job_data EXCEPT !.distribution_result = routed]
              /\ log' = append_log_action(l0, "Distribution complete", "Success")
              /\ pc' = StageAfter("distribute")
              /\ NoRaise
           \/ \* an unguarded mkdir/iterdir on a network root raises
              /\ Raise("distribute", "OSError")
              /\ log' = l0
              /\ UNCHANGED <<netDirs, job_data>>
    /\ UNCHANGED <<inputVars, status, result, handlerTempDir, mkdtempCount, tempDirs,
                   outputRootExists, builtOutput, classVars, unitVars>>

SkipDistribution ==
    /\ pc = "distribute"
    /\ ~DistributeGuard
    /\ log' = IF args.distribute_data
              THEN append_log_action(log, "Distribution disabled via config", "Info")
              ELSE append_log_action(log, "Skipping file distribution (user request)", "Info")
    /\ pc' = StageAfter("distribute")
    /\ UNCHANGED <<inputVars, job_data, status, result, err, failedAt, ran, handlerTempDir,
                   mkdtempCount, tempDirs, outputRootExists, builtOutput, netDirs, classVars, unitVars>>

----------------------------------------------------------------------------
(* BackendFacade.cleanup_temp: deletes job_data["temp_dir"] when it is set  *)
(* and exists; shutil.rmtree may fail, which is logged and swallowed.      *)

CleanupDirs(dirs, jd, rmtreeOk) ==
    IF jd.temp_dir = NoDir THEN dirs
    ELSE IF jd.temp_dir \notin dirs THEN dirs
    ELSE IF rmtreeOk THEN dirs \ {jd.temp_dir}
    ELSE dirs

CleanupLog(entries, dirs, jd, rmtreeOk) ==
    IF jd.temp_dir = NoDir THEN entries
    ELSE IF jd.temp_dir \notin dirs
         THEN append_log_action(entries, "Temp directory already gone", "Info")
    ELSE IF rmtreeOk THEN append_log_action(entries, "Cleaned temp folder", "Success")
    ELSE append_log_action(entries, "Cleanup error", "Error")

(* STEP 10: cleanup on the success path *)
CleanupTemp ==
    /\ pc = "cleanup"
    /\ ran' = Append(ran, "cleanup")
    /\ \E rmtreeOk \in BOOLEAN :
           /\ tempDirs' = CleanupDirs(tempDirs, job_data, rmtreeOk)
           /\ log' = CleanupLog(
                        append_log_action(log, "Step 8: Cleaning up temporary files", "Info"),
                        tempDirs, job_data, rmtreeOk)
    /\ pc' = StageAfter("cleanup")
    /\ UNCHANGED <<inputVars, job_data, status, result, err, failedAt, handlerTempDir,
                   mkdtempCount, outputRootExists, builtOutput, netDirs, classVars, unitVars>>

ResultJobData(jd) ==
    [job_number         |-> jd.job_number,
     transmittal_number |-> jd.transmittal_number,
     transmittal_type   |-> jd.transmittal_type]

(* completion, processing_log.json, success response *)
ReturnSuccess ==
    /\ pc = "finish"
    /\ status' = "Processing completed successfully"
    /\ \E writeOk \in BOOLEAN :
         LET l0 == append_log_action(log, "Transmittal processing complete!", "Success")
             l1 == IF job_data.final_output_folder = None THEN l0
                   ELSE IF writeOk
                        THEN append_log_action(l0, "Detailed logs saved", "Info")
                        ELSE append_log_action(l0, "Warning: Could not save log file", "Warning")
         IN  /\ log' = l1
             /\ result' = [success  |-> TRUE,
                           error    |-> None,
                           job_data |-> ResultJobData(job_data),
                           logs     |-> LogSummary(l1),
                           status   |-> status']
    /\ pc' = "done"
    /\ UNCHANGED <<inputVars, job_data, err, failedAt, ran, handlerTempDir, mkdtempCount,
                   tempDirs, outputRootExists, builtOutput, netDirs, classVars, unitVars>>

(* except Exception: log, best-effort cleanup, failure response *)
HandleFailure ==
    /\ pc = "except"
    /\ status' = "Processing failed"
    /\ ran' = IF job_data.temp_dir # NoDir THEN Append(ran, "cleanup") ELSE ran
    /\ \E rmtreeOk \in BOOLEAN :
         LET l0 == append_log_action(log, "Pipeline failed", "Error")
             l1 == CleanupLog(l0, tempDirs, job_data, rmtreeOk)
         IN  /\ tempDirs' = CleanupDirs(tempDirs, job_data, rmtreeOk)
             /\ log' = l1
             /\ result' = [success  |-> FALSE,
                           error    |-> err,
                           job_data |-> ResultJobData(job_data),
                           logs     |-> LogSummary(l1),
                           status   |-> status']
    /\ pc' = "done"
    /\ UNCHANGED <<inputVars, job_data, err, failedAt, handlerTempDir, mkdtempCount,
                   outputRootExists, builtOutput, netDirs, classVars, unitVars>>

Next ==
    \/ ValidateInputs
    \/ ExtractZip
    \/ DetectTypes
    \/ ResolveJobNumber
    \/ ClassifyFiles
    \/ BuildOutput
    \/ CreateCoverSheet
    \/ FinalizeOutput
    \/ DistributeFiles
    \/ SkipDistribution
    \/ CleanupTemp
    \/ ReturnSuccess
    \/ HandleFailure

Spec == Init /\ [][Next]_vars

----------------------------------------------------------------------------
(* FileClassifier (file_classifier.py) over a working directory tree.       *)
(* A tree has entries 1..n numbered in the order Path.rglob("*") yields      *)
(* them (a directory before its contents); entry 0 is temp_dir itself.     *)
(* Entry names are drawn from representative names; what the regular       *)
(* expressions and str methods of the classifier return for these names    *)
(* is tabulated below.                                                     *)

DirNames  == {"Zeman", "A12", "Fab Drawings", "PDF Assemblies", "E-Sheets"}
FileNames == {"d1.pdf", "s1.nc"}
Names     == DirNames \cup FileNames
TempDirName == "TransmitPro_"

\* str.lower()
Lower(name) ==
    CASE name = "Zeman"          -> "zeman"
      [] name = "A12"            -> "a12"
      [] name = "Fab Drawings"   -> "fab drawings"
      [] name = "PDF Assemblies" -> "pdf assemblies"
      [] name = "E-Sheets"       -> "e-sheets"
      [] name = TempDirName      -> "transmitpro_"
      [] OTHER                   -> name

\* Path.suffix.lower()
Suffix(name) ==
    CASE name = "d1.pdf" -> ".pdf"
      [] name = "s1.nc"  -> ".nc"
      [] OTHER           -> ""

\* self.patterns[p].search(name), all compiled with re.IGNORECASE
PatternHits ==
    {<<"zeman", "zeman">>,
     <<"fab_dwgs", "fab drawings">>, <<"fab_folder", "fab drawings">>,
     <<"erection", "e-sheets">>}
Search(pattern, name) == <<pattern, Lower(name)>> \in PatternHits

\* numeric_or_alpha.match(name) or zeman_style.match(name)
ValidZemanChildName(name) == Lower(name) \in {"a12"}

ParentOf(t, i) == t.parent[i]
NameOf(t, i)   == IF i = 0 THEN TempDirName ELSE t.name[i]
is_dir(t, i)   == IF i = 0 THEN TRUE ELSE t.name[i] \in DirNames
is_file(t, i)  == IF i = 0 THEN FALSE ELSE t.name[i] \in FileNames

RECURSIVE is_relative_to(_, _, _)
\* Path.is_relative_to(other): other is the path itself or one of its ancestors
is_relative_to(t, path, other) ==
    IF path = other THEN TRUE
    ELSE IF path = 0 THEN FALSE
    ELSE is_relative_to(t, ParentOf(t, path), other)

\* the parts of a path below temp_dir (the parts of temp_dir itself match no rule)
Parts(t, i) == {j \in 1..t.n : is_relative_to(t, i, j)}

\* entries in rglob("*") order
Walk(t) == [i \in 1..t.n |-> i]

\* children in iterdir() order
Children(t, d) == SelectSeq(Walk(t), LAMBDA i : ParentOf(t, i) = d)

\* folder.rglob("*.pdf")
PdfsBeneath(t, d) ==
    SelectSeq(Walk(t), LAMBDA i : i # d /\ is_relative_to(t, i, d)
                                        /\ Suffix(NameOf(t, i)) = ".pdf")

\* where a new entry can be put: under temp_dir or under a directory on the
\* path to the last entry, with a name no sibling has (files are leaves)
CanAdd(t, q, m) ==
    /\ is_dir(t, q)
    /\ IF q = 0 THEN TRUE ELSE is_relative_to(t, t.n, q)
    /\ \A c \in 1..t.n : ParentOf(t, c) = q => NameOf(t, c) # m

CategoryNames ==
    {"fab", "erection", "field", "parts", "nc1", "dxf", "enc", "zeman", "void",
     "import", "model", "nc_issue", "other", "zips", "original"}

\* FileClassifier.__init__: self.categories
EmptyCategories == [c \in CategoryNames |-> <<>>]

\* _is_ignored_folder
_is_ignored_folder(t, i) ==
    \E j \in Parts(t, i) :
        Lower(NameOf(t, j)) \in {"drawings", "pdf assemblies", "ifc package"}

\* _is_ignored_fab_dwg: a substring test on the whole path string
_is_ignored_fab_dwg(t, i) ==
    \E j \in Parts(t, i) : Lower(NameOf(t, j)) \in {"pdf assemblies"}

\* _is_root_transmittal_folder: False for every representative directory name
_is_root_transmittal_folder(t, i) ==
    /\ ParentOf(t, i) = 0
    /\ Lower(NameOf(t, i)) \in {}

\* a variant in which no path counts as lying under a zeman entry
UnderZemanNever(t, i, zeman) == FALSE

\* any(file.is_relative_to(z) for z in zeman)
UnderZeman(t, i, zeman) == \E z \in Range(zeman) : is_relative_to(t, i, z)

RECURSIVE AppendNew(_, _)
\* "if pdf not in self.categories[c]: self.categories[c].append(pdf)"
AppendNew(list, items) ==
    IF items = <<>> THEN list
    ELSE AppendNew(IF Head(items) \in Range(list) THEN list
                   ELSE Append(list, Head(items)),
                   Tail(items))

RECURSIVE _collect_all_zeman_folders(_, _, _)
\* for each directory matching the zeman pattern, its valid child directories
_collect_all_zeman_folders(t, cats, k) ==
    IF k > t.n THEN cats
    ELSE _collect_all_zeman_folders(t,
            IF is_dir(t, k) /\ Search("zeman", NameOf(t, k))
            THEN [cats EXCEPT !["zeman"] = @ \o
                    SelectSeq(Children(t, k),
                              LAMBDA c : is_dir(t, c) /\ ValidZemanChildName(NameOf(t, c)))]
            ELSE cats,
            k + 1)

\* _collect_original_files
_collect_original_files(t, cats) ==
    [cats EXCEPT !["original"] = @ \o Children(t, 0)]

\* the folder rules of classify(), in the order they are tested
FolderRules ==
    <<[pattern |-> "fab_dwgs",    category |-> "fab",      skipIgnored |-> TRUE],
      [pattern |-> "fab_folder",  category |-> "fab",      skipIgnored |-> TRUE],
      [pattern |-> "parts",       category |-> "parts",    skipIgnored |-> FALSE],
      [pattern |-> "erection",    category |-> "erection", skipIgnored |-> FALSE],
      [pattern |-> "erection_OL", category |-> "erection", skipIgnored |-> FALSE],
      [pattern |-> "field",       category |-> "field",    skipIgnored |-> FALSE],
      [pattern |-> "void",        category |-> "void",     skipIgnored |-> FALSE]>>

\* index of the first rule matching the folder name, 0 if none
FirstRule(name) ==
    IF \E r \in 1..Len(FolderRules) : Search(FolderRules[r].pattern, name)
    THEN CHOOSE r \in 1..Len(FolderRules) :
            /\ Search(FolderRules[r].pattern, name)
            /\ \A q \in 1..(r - 1) : ~Search(FolderRules[q].pattern, name)
    ELSE 0

RECURSIVE FolderPass(_, _, _)
\* "OTHER CATEGORIES": folder-level classification
FolderPass(t, cats, k) ==
    IF k > t.n THEN cats
    ELSE LET r == FirstRule(NameOf(t, k))
             skip == \/ ~is_dir(t, k)
                     \/ _is_ignored_folder(t, k)
                     \/ _is_root_transmittal_folder(t, k)
                     \/ \E z \in Range(cats["zeman"]) :
                            is_relative_to(t, k, z) \/ is_relative_to(t, z, k)
                     \/ r = 0
         IN  FolderPass(t,
                IF skip THEN cats
                ELSE [cats EXCEPT ![FolderRules[r].category] =
                        AppendNew(@, SelectSeq(PdfsBeneath(t, k),
                            LAMBDA f : ~(FolderRules[r].skipIgnored
                                         /\ _is_ignored_fab_dwg(t, f))))],
                k + 1)

\* extension rules of the file-level scan
ExtCategory(ext) ==
    CASE ext \in {".xml", ".kss"}         -> "import"
      [] ext = ".dxf"                     -> "dxf"
      [] ext = ".nc1"                     -> "nc1"
      [] ext \in {".ifc", ".trb", ".dwg"} -> "model"
      [] ext = ".zip"                     -> "zips"
      [] ext = ".enc"                     -> "enc"
      [] OTHER                            -> "none"

RECURSIVE FileScan(_, _, _)
\* "FILE-LEVEL SCAN"
FileScan(t, cats, k) ==
    IF k > t.n THEN cats
    ELSE LET c == ExtCategory(Suffix(NameOf(t, k)))
         IN  FileScan(t,
                IF ~is_file(t, k) \/ UnderZeman(t, k, cats["zeman"]) THEN cats
                ELSE IF c # "none" THEN [cats EXCEPT ![c] = Append(@, k)]
                ELSE IF Search("list_cover", NameOf(t, k))
                        \/ Search("list_cover_", NameOf(t, k))
                     THEN [cats EXCEPT !["other"] = Append(@, k)]
                ELSE cats,
                k + 1)

RECURSIVE ResidualPass(_, _, _, _, _)
\* "OTHER FILES": classified_files and zeman_paths are taken before the loop
ResidualPass(t, cats, classified_files, zeman_paths, k) ==
    IF k > t.n THEN cats
    ELSE LET parent_name == Lower(NameOf(t, ParentOf(t, k)))
             skip == \/ ~is_file(t, k)
                     \/ k \in classified_files
                     \/ Suffix(NameOf(t, k)) \in {".db", ".db1"}
                     \/ UnderZeman(t, k, zeman_paths)
                     \/ (parent_name = "drawings" /\ Suffix(NameOf(t, k)) = ".pdf")
                     \/ parent_name = "pdf parts" \/ parent_name = "pdf assemblies"
                     \/ _is_ignored_folder(t, k)
         IN  ResidualPass(t,
                IF skip THEN cats
                ELSE IF Suffix(NameOf(t, k)) = ".nc" /\ ~Search("zeman", parent_name)
                     THEN [cats EXCEPT !["nc_issue"] = Append(@, k)]
                ELSE [cats EXCEPT !["other"] = Append(@, k)],
                classified_files, zeman_paths, k + 1)

RECURSIVE FallbackPass(_, _, _, _)
\* "FALLBACK": PDFs of the "pdf assemblies" folders outside zeman subtrees
FallbackPass(t, cats, zeman_paths, k) ==
    IF k > t.n THEN cats
    ELSE FallbackPass(t,
            IF is_dir(t, k) /\ Lower(NameOf(t, k)) = "pdf assemblies"
                            /\ ~UnderZeman(t, k, zeman_paths)
            THEN [cats EXCEPT !["fab"] =
                    AppendNew(@, SelectSeq(PdfsBeneath(t, k),
                                   LAMBDA f : ~UnderZeman(t, f, zeman_paths)))]
            ELSE cats,
            zeman_paths, k + 1)

\* classify() running the PDF Assemblies fallback whether or not fab is empty
classifyFallbackAlways(t, cats) ==
    LET c1 == _collect_all_zeman_folders(t, cats, 1)
        c2 == _collect_original_files(t, c1)
        c3 == FolderPass(t, c2, 1)
        c4 == FileScan(t, c3, 1)
        classified_files == UNION {Range(c4[c]) : c \in CategoryNames}
        zeman_paths == c4["zeman"]
        c5 == ResidualPass(t, c4, classified_files, zeman_paths, 1)
    IN  FallbackPass(t, c5, zeman_paths, 1)

\* FileClassifier.classify, applied to the categories the object holds
classify(t, cats) ==
    LET c1 == _collect_all_zeman_folders(t, cats, 1)
        c2 == _collect_original_files(t, c1)
        c3 == FolderPass(t, c2, 1)
        c4 == FileScan(t, c3, 1)
        classified_files == UNION {Range(c4[c]) : c \in CategoryNames}
        zeman_paths == c4["zeman"]
        c5 == ResidualPass(t, c4, classified_files, zeman_paths, 1)
    IN  IF c5["fab"] = <<>> THEN FallbackPass(t, c5, zeman_paths, 1) ELSE c5

pipelineIdle ==
    /\ args = [job_number |-> None, distribute_data |-> FALSE]
    /\ zipFile = None
    /\ DISTRIBUTION_ENABLED = FALSE
    /\ pc = "idle"
    /\ job_data = InitJobData
    /\ log = <<>>
    /\ status = "Idle"
    /\ result = NoResult
    /\ err = "none"
    /\ failedAt = "none"
    /\ ran = <<>>
    /\ handlerTempDir = NoDir
    /\ mkdtempCount = 0
    /\ tempDirs = {}
    /\ outputRootExists = FALSE
    /\ builtOutput = None
    /\ netDirs = {}

InitClassify ==
    /\ pipelineIdle
    /\ tree = NoTree
    /\ categories = NoCategories
    /\ classifyRuns = 0
    /\ classifyCalls = 0
    /\ firstMapping = NoCategories
    /\ UnitsIdle

\* extraction writes one more entry into the working directory; the tree is
\* left unmodified once classification has begun
AddEntry ==
    /\ categories = NoCategories
    /\ tree.n < MaxNodes
    /\ \E q \in 0..tree.n, m \in Names :
           /\ CanAdd(tree, q, m)
           /\ tree' = [n      |-> tree.n + 1,
                       parent |-> Append(tree.parent, q),
                       name   |-> Append(tree.name, m)]
    /\ UNCHANGED <<pipeVars, unitVars, categories, classifyRuns, classifyCalls, firstMapping>>

\* classifier = FileClassifier(temp_dir, ...)
NewClassifier ==
    /\ categories = NoCategories \/ classifyRuns > 0
    /\ classifyCalls < MaxRuns
    /\ categories' = EmptyCategories
    /\ classifyRuns' = 0
    /\ UNCHANGED <<pipeVars, unitVars, tree, classifyCalls, firstMapping>>

\* classifier.classify(); the returned dict is self.categories itself
Classify ==
    /\ categories # NoCategories
    /\ classifyCalls < MaxRuns
    /\ categories' = classify(tree, categories)
    /\ classifyRuns' = classifyRuns + 1
    /\ classifyCalls' = classifyCalls + 1
    /\ firstMapping' = IF classifyCalls = 0 THEN categories' ELSE firstMapping
    /\ UNCHANGED <<pipeVars, unitVars, tree>>

NextClassify == AddEntry \/ NewClassifier \/ Classify

SpecClassify == InitClassify /\ [][NextClassify]_vars

----------------------------------------------------------------------------
(* DistributionHandler (distribution_handler.py) over a built output folder *)
(* and the two network roots. A directory is the sequence of its path      *)
(* components, a file the pair <<stem, suffix>>; a copied entry is the     *)
(* pair <<destination directory, file>>.                                   *)

JobNumber == "6516"

\* DistributionHandler.sd_drive / nc_drive
SdRoot == <<"Shop Drawings">>
NcRoot == <<"NC Files">>

FolderNames == {"6516 Smith", "6516 Zeman", "6516", "6516 - Zeman", "7001 Other",
                "ENC old", "ENC"}

\* job_number.lower() in folder.name.lower()
HasJobNumber(name) == name \in {"6516 Smith", "6516 Zeman", "6516", "6516 - Zeman"}
\* "zeman" in folder.name.lower()
HasZemanKeyword(name) == name \in {"6516 Zeman", "6516 - Zeman"}
\* "enc" in folder.name.lower() (none of the names holds "stairs" or "rails")
HasEncKeyword(name) == name \in {"ENC old", "ENC"}

Last(p) == p[Len(p)]
Prefixes(p) == {SubSeq(p, 1, k) : k \in 1..Len(p)}

\* Path.mkdir(parents=True, exist_ok=True)
mkdir(dirs, p) == dirs \cup Prefixes(p)

\* the directories Path.iterdir() yields
iterdir(dirs, p) ==
    {d \in dirs : Len(d) = Len(p) + 1 /\ SubSeq(d, 1, Len(p)) = p}

\* Each discovery returns the first match in iterdir() order, which the
\* filesystem decides: the operators give the set of possible results.

_discover_sd_dest(dirs) ==
    IF SdRoot \notin dirs THEN {SdRoot \o <<JobNumber>>}
    ELSE LET m == {d \in iterdir(dirs, SdRoot) : HasJobNumber(Last(d))}
         IN  IF m # {} THEN m ELSE {SdRoot \o <<JobNumber>>}

_discover_nc_dest(dirs) ==
    IF NcRoot \notin dirs THEN {NcRoot \o <<JobNumber>>}
    ELSE LET m == {d \in iterdir(dirs, NcRoot) : HasJobNumber(Last(d))}
         IN  IF m # {} THEN m ELSE {NcRoot \o <<JobNumber>>}

\* the searches of _discover_enc_dest, after job_nc_folder.mkdir(...)
_discover_enc_dest(dirs, job_nc_folder) ==
    LET m1 == {d \in iterdir(dirs, job_nc_folder) :
                   HasJobNumber(Last(d)) /\ HasEncKeyword(Last(d))}
        m2 == {d \in iterdir(dirs, job_nc_folder) : HasEncKeyword(Last(d))}
    IN  IF m1 # {} THEN m1
        ELSE IF m2 # {} THEN m2
        ELSE {job_nc_folder \o <<"ENC">>}

_discover_zeman_dest(dirs) ==
    LET m == {d \in iterdir(dirs, NcRoot) :
                  HasJobNumber(Last(d)) /\ HasZemanKeyword(Last(d))}
    IN  IF m # {} THEN m ELSE {NcRoot \o <<"6516 - Zeman">>}

\* DistributionHandler._discover_structure: the category folders of the built output
StructureCategories ==
    {"fab", "erection", "field", "parts", "void",
     "nc1", "dxf", "nc_dxf", "enc", "nc_issue", "zeman"}

\* _discover_structure keeps the folders that exist
Structure(b) == {c \in StructureCategories : b[c] # {}}

\* the keys of _routing_table, in insertion order
RoutingOrder ==
    <<"fab", "erection", "field", "parts", "void",
      "nc1", "dxf", "nc_dxf", "enc", "zeman">>

\* DistributionHandler._routing_table
RoutingTable(h, category) ==
    CASE category = "fab"      -> h.sd_dest \o <<"Drawings/Fabrication">>
      [] category = "erection" -> h.sd_dest \o <<"Drawings/ESheets">>
      [] category = "field"    -> h.sd_dest \o <<"Drawings/Field Work">>
      [] category = "parts"    -> h.sd_dest \o <<"Drawings/Parts">>
      [] category = "void"     -> h.sd_dest \o <<"Drawings/Void">>
      [] category \in {"nc1", "dxf", "nc_dxf"} -> h.nc_dest
      [] category = "enc"      -> h.enc_dest
      [] category = "zeman"    -> h.zeman_dest

\* ---- inputs ----

StemNames == <<"a", "b", "c">>
Stems == {StemNames[i] : i \in 1..MaxStems}

DrawingCategories == {"fab", "erection", "field", "parts", "void"}

\* the drawing categories the built output folders are drawn from
BuiltDrawings == {"fab", "erection", "field"}

\* what FolderBuilder leaves in the category folders: one PDF per drawing
\* category present, every nc1/dxf file in its own and in the combined
\* folder, one ENC file, one zeman folder
BuiltFolder(drawings, nc, dxf, enc, zeman) ==
    [c \in StructureCategories |->
        CASE c \in DrawingCategories -> IF c \in drawings THEN {<<c, ".pdf">>} ELSE {}
          [] c = "nc1"    -> {<<s, ".nc1">> : s \in nc}
          [] c = "dxf"    -> {<<s, ".dxf">> : s \in dxf}
          [] c = "nc_dxf" -> {<<s, ".nc1">> : s \in nc} \cup {<<s, ".dxf">> : s \in dxf}
          [] c = "enc"    -> IF enc THEN {<<"x", ".enc">>} ELSE {}
          [] c = "zeman"  -> IF zeman THEN {<<"A12", "">>} ELSE {}
          [] OTHER        -> {}]

\* initial contents of the shop-drawing root and of the NC root
SdInits ==
    {{}, {SdRoot}, {SdRoot, SdRoot \o <<"6516 Smith">>}}
NcInits ==
    {{},
     {NcRoot, NcRoot \o <<"7001 Other">>},
     {NcRoot, NcRoot \o <<"6516 Smith">>},
     {NcRoot, NcRoot \o <<"6516 Zeman">>},
     {NcRoot, NcRoot \o <<"6516 Smith">>, NcRoot \o <<"6516 Zeman">>},
     {NcRoot, NcRoot \o <<"6516 Smith">>, NcRoot \o <<"6516 Smith", "ENC old">>}}

TransmittalTypes == {"IFA", "IFF", UNKNOWN}

NoDest == <<>>

InitDistribute ==
    /\ pipelineIdle
    /\ ClassifierIdle
    /\ NamesIdle
    /\ ExtraIdle
    /\ \E t \in TransmittalTypes :
           dh = [pc |-> "new", transmittal_type |-> t, structure |-> {},
                 sd_dest |-> NoDest, nc_dest |-> NoDest,
                 enc_dest |-> NoDest, zeman_dest |-> NoDest]
    /\ \E drawings \in SUBSET BuiltDrawings, nc \in SUBSET Stems,
          dxf \in SUBSET Stems, enc \in BOOLEAN, zeman \in BOOLEAN :
           built = BuiltFolder(drawings, nc, dxf, enc, zeman)
    /\ \E s \in SdInits, n \in NcInits : net = s \cup n
    /\ netFiles = {}
    /\ dResult = None
    /\ dLog = <<>>

\* entries the four discoveries append, in call order
DiscoveryLog(entries) ==
    append_log_action(append_log_action(append_log_action(append_log_action(
        entries, <<"Searching for SD folder">>, "Info"),
                 <<"Searching for NC folder">>, "Info"),
                 <<"Searching for ENC folder">>, "Info"),
                 <<"Searching for NC folder">>, "Info")

\* DistributionHandler.__init__: the four destination discoveries, in order
\* sd, nc, enc, zeman; _discover_enc_dest creates the NC job folder
Construct ==
    /\ dh.pc = "new"
    /\ \E sd \in _discover_sd_dest(net), ncd \in _discover_nc_dest(net) :
         \/ /\ net' = mkdir(net, ncd)
            /\ \E encd \in _discover_enc_dest(net', ncd),
                  zd \in _discover_zeman_dest(net') :
                   dh' = [dh EXCEPT !.pc = "ready",
                                    !.structure = Structure(built),
                                    !.sd_dest = sd, !.nc_dest = ncd,
                                    !.enc_dest = encd, !.zeman_dest = zd]
            /\ dLog' = append_log_action(DiscoveryLog(dLog),
                                         <<"Searching for Zeman folder">>, "Info")
         \/ \* job_nc_folder.mkdir raises: the constructor raises
            /\ dh' = [dh EXCEPT !.pc = "raised"]
            /\ net' = net
            /\ dLog' = DiscoveryLog(dLog)
    /\ UNCHANGED <<pipeVars, classVars, nameVars, extraVars, built, netFiles, dResult>>

NoFault == <<"none", "none">>
\* destinations whose writes may fail: one of each network area
FaultyCategories == {"erection", "nc1", "zeman"}
Faults == {NoFault} \cup {<<c, how>> : c \in FaultyCategories, how \in {"mkdir", "copy"}}

\* distribution_map.setdefault(category, []) ... append
MapPut(m, c, files) ==
    [x \in DOMAIN m \cup {c} |-> IF x = c THEN files ELSE m[x]]

\* the files for which the tests of lines 87 and 89 add a stem to a seen set
SeenBy(c, files) ==
    {<<c, f>> : f \in {g \in files :
        \/ c \in {"nc1", "nc_dxf"} /\ g[2] = ".nc1"
        \/ c \in {"dxf", "nc_dxf"} /\ g[2] = ".dxf"}}

RECURSIVE DistributeFrom(_, _, _, _, _)
\* the loop over routing_table.items(), from its k-th key on
DistributeFrom(h, b, st, k, fault) ==
    IF k > Len(RoutingOrder) \/ st.raised THEN st
    ELSE LET c     == RoutingOrder[k]
             path  == RoutingTable(h, c)
             files == IF c \in h.structure THEN b[c] ELSE {}
             copied == fault # <<c, "copy">>
         IN  DistributeFrom(h, b,
                IF c \notin AllowedCategories(h.transmittal_type)
                THEN [st EXCEPT !.log = append_log_action(@, <<"Skipping", c>>, "Info")]
                ELSE IF files = {} THEN st
                ELSE IF fault = <<c, "mkdir">> THEN [st EXCEPT !.raised = TRUE]
                ELSE IF c = "zeman"
                THEN [st EXCEPT
                        !.net   = IF copied
                                  THEN mkdir(@, path) \cup {path \o <<f[1]>> : f \in files}
                                  ELSE mkdir(@, path),
                        !.files = IF copied THEN @ \cup {<<path, f>> : f \in files} ELSE @,
                        !.map   = IF copied THEN MapPut(@, c, files) ELSE @,
                        !.log   = IF copied
                                  THEN append_log_action(@, <<"Copying Zeman folder">>, "Success")
                                  ELSE append_log_action(
                                         append_log_action(@, <<"Copying Zeman folder">>, "Success"),
                                         <<"Error copying Zeman folder">>, "Error")]
                ELSE [st EXCEPT
                        !.net   = mkdir(@, path),
                        !.files = IF copied THEN @ \cup {<<path, f>> : f \in files} ELSE @,
                        !.map   = MapPut(@, c, files),
                        !.seen  = @ \cup SeenBy(c, files),
                        !.log   = IF copied THEN @
                                  ELSE append_log_action(@, <<"Error copying", c>>, "Error")],
                k + 1, fault)

\* a variant that keeps every seen file instead of its stem
seen_nc_files(seen) == {p \in seen : p[2][2] = ".nc1"}

\* seen_nc: the stems of the seen .nc1 files
seen_nc(seen) == {p[2][1] : p \in {q \in seen : q[2][2] = ".nc1"}}

\* seen_dxf: the stems of the seen .dxf files
seen_dxf(seen) == {p[2][1] : p \in {q \in seen : q[2][2] = ".dxf"}}

\* count_data of distribute()
CountData(m, seen) ==
    [c \in DOMAIN m |->
        CASE c = "nc1"    -> Cardinality(seen_nc(seen))
          [] c = "dxf"    -> Cardinality(seen_dxf(seen))
          [] c = "nc_dxf" -> Cardinality(seen_nc(seen)) + Cardinality(seen_dxf(seen))
          [] OTHER        -> Cardinality(m[c])]

\* entries distribute() appends before its loop
DistributeLog(entries, transmittal_type) ==
    append_log_action(append_log_action(append_log_action(entries,
        IF transmittal_type = "IFA"
        THEN <<"distributing ONLY erection drawings">>
        ELSE <<"full distribution enabled">>, "Info"),
        <<"Starting file discovery...">>, "info"),
        <<"Building routing table...">>, "info")

\* DistributionHandler.distribute; one destination at most is faulty: its
\* mkdir raises (and distribute raises) or the copies into it fail (logged)
Distribute ==
    /\ dh.pc = "ready"
    /\ \E fault \in Faults :
         /\ \/ fault = NoFault
            \/ /\ fault[1] \in AllowedCategories(dh.transmittal_type)
               /\ fault[1] \in dh.structure
         /\ \E st \in {DistributeFrom(dh, built,
                          [net |-> net, files |-> netFiles, map |-> <<>>, seen |-> {},
                           log |-> DistributeLog(dLog, dh.transmittal_type),
                           raised |-> FALSE], 1, fault)} :
              /\ net' = st.net
              /\ netFiles' = st.files
              /\ dLog' = st.log
              /\ IF st.raised
                 THEN /\ dh' = [dh EXCEPT !.pc = "raised"]
                      /\ dResult' = dResult
                 ELSE /\ dh' = [dh EXCEPT !.pc = "done"]
                      /\ dResult' = [count_data       |-> CountData(st.map, st.seen),
                                     distribution_map |-> st.map]
    /\ UNCHANGED <<pipeVars, classVars, nameVars, extraVars, built>>

NextDistribute == Construct \/ Distribute

SpecDistribute == InitDistribute /\ [][NextDistribute]_vars

----------------------------------------------------------------------------
(* Filenames as sequences of one-character strings, and the regular        *)
(* expressions of folder_builder.py and type_detector.py as operators on    *)
(* them. Indices are 1-based; a match is given by the index of its last    *)
(* character, 0 meaning no match.                                          *)

LowerLetters ==
    <<"a", "b", "c", "d", "e", "f", "g", "h", "i", "j", "k", "l", "m",
      "n", "o", "p", "q", "r", "s", "t", "u", "v", "w", "x", "y", "z">>
UpperLetters ==
    <<"A", "B", "C", "D", "E", "F", "G", "H", "I", "J", "K", "L", "M",
      "N", "O", "P", "Q", "R", "S", "T", "U", "V", "W", "X", "Y", "Z">>
DigitChars == {"0", "1", "2", "3", "4", "5", "6", "7", "8", "9"}

\* [a-z0-9] and [A-Z0-9] under re.IGNORECASE
AlnumChars == Range(LowerLetters) \cup Range(UpperLetters) \cup DigitChars
\* \w
WordChars  == AlnumChars \cup {"_"}
\* \s
SpaceChars == {" "}
\* [\s_\-]
SepChars   == {" ", "_", "-"}

\* str.lower() of one character
LowerChar(ch) ==
    IF ch \in Range(UpperLetters)
    THEN LowerLetters[CHOOSE i \in 1..26 : UpperLetters[i] = ch]
    ELSE ch

\* str.upper() of one character
UpperChar(ch) ==
    IF ch \in Range(LowerLetters)
    THEN UpperLetters[CHOOSE i \in 1..26 : LowerLetters[i] = ch]
    ELSE ch

LowerStr(s) == [i \in 1..Len(s) |-> LowerChar(s[i])]
UpperStr(s) == [i \in 1..Len(s) |-> UpperChar(s[i])]

\* the character at index i, "" outside the string
At(s, i) == IF i >= 1 /\ i <= Len(s) THEN s[i] ELSE ""

\* the literal lit (lower case) stands at index i, ignoring case
LitAt(s, i, lit) ==
    \A k \in 1..Len(lit) : LowerChar(At(s, i + k - 1)) = lit[k]

\* "lit in s"
Contains(s, lit) == \E i \in 1..Len(s) : LitAt(s, i, lit)

\* last index of the longest run of characters of class cls starting at
\* index i (i - 1 when the run is empty)
RunEnd(s, i, cls) ==
    IF i > Len(s) THEN i - 1
    ELSE CHOOSE j \in (i - 1)..Len(s) :
            /\ \A k \in i..j : s[k] \in cls
            /\ At(s, j + 1) \notin cls

\* \b between index i - 1 and index i
WordBoundary(s, i) == (At(s, i - 1) \in WordChars) # (At(s, i) \in WordChars)

\* str.strip(chars)
Strip(s, chars) ==
    IF \A k \in 1..Len(s) : s[k] \in chars THEN <<>>
    ELSE LET a == CHOOSE i \in 1..Len(s) :
                      s[i] \notin chars /\ \A k \in 1..(i - 1) : s[k] \in chars
             b == CHOOSE j \in 1..Len(s) :
                      s[j] \notin chars /\ \A k \in (j + 1)..Len(s) : s[k] \in chars
         IN  SubSeq(s, a, b)

\* index of the dot that starts Path.suffix, 0 when there is no suffix
SuffixDot(filename) ==
    LET dots == {i \in 2..(Len(filename) - 1) : filename[i] = "."}
    IN  IF dots = {} THEN 0
        ELSE CHOOSE i \in dots : \A j \in dots : j <= i

\* Path(filename).stem and Path(filename).suffix
StemOf(filename) ==
    IF SuffixDot(filename) = 0 THEN filename
    ELSE SubSeq(filename, 1, SuffixDot(filename) - 1)
SuffixOf(filename) ==
    IF SuffixDot(filename) = 0 THEN <<>>
    ELSE SubSeq(filename, SuffixDot(filename), Len(filename))

----------------------------------------------------------------------------
(* FolderBuilder._strip_revision *)

\* ends of rev(?:ision)?[\s_\-]?[a-z0-9]+ started at index p, over every
\* way the optional parts and the greedy run can be taken
RevTokenEnds(s, p) ==
    IF ~LitAt(s, p, <<"r", "e", "v">>) THEN {}
    ELSE LET afterWord == {p + 3} \cup
                          (IF LitAt(s, p + 3, <<"i", "s", "i", "o", "n">>)
                           THEN {p + 8} ELSE {})
             afterSep  == afterWord \cup
                          {q + 1 : q \in {r \in afterWord : At(s, r) \in SepChars}}
         IN  UNION {q .. RunEnd(s, q, AlnumChars) : q \in afterSep}

\* The decompositions of name by part_like_pattern
\*   ^(.+?)\s*-\s*([^-]+?)\s*-\s*(rev(?:ision)?[\s_\-]?[a-z0-9]+)\s*$
\* as <<a, c, d, f, g>>: prefix = 1..a, desc = c+1..d, rev = f+1..g.
\* A greedy \s* that is followed by "-" or by "rev" can only take the
\* whole run of spaces; \s*$ fixes g.
PartLikeMatches(name) ==
    LET n == Len(name)
        g == CHOOSE j \in 0..n :
                 /\ \A k \in (j + 1)..n : name[k] \in SpaceChars
                 /\ At(name, j) \notin SpaceChars
    IN  {m \in UNION {UNION {{<<a, c, d>> : d \in (c + 1)..n} :
                               c \in (RunEnd(name, a + 1, SpaceChars) + 1)
                                     ..RunEnd(name, RunEnd(name, a + 1, SpaceChars) + 2,
                                              SpaceChars)} :
                       a \in {x \in 1..n :
                                 At(name, RunEnd(name, x + 1, SpaceChars) + 1) = "-"}} :
            /\ \A k \in (m[2] + 1)..m[3] : name[k] # "-"
            /\ At(name, RunEnd(name, m[3] + 1, SpaceChars) + 1) = "-"
            /\ g \in RevTokenEnds(name,
                   RunEnd(name, RunEnd(name, m[3] + 1, SpaceChars) + 2, SpaceChars) + 1)}

\* the decomposition the backtracking matcher finds first: shortest prefix
\* (lazy), then longest \s* before desc (greedy), then shortest desc (lazy)
PartLikeFirst(name) ==
    CHOOSE m \in PartLikeMatches(name) :
        \A o \in PartLikeMatches(name) :
            \/ m[1] < o[1]
            \/ m[1] = o[1] /\ m[2] > o[2]
            \/ m[1] = o[1] /\ m[2] = o[2] /\ m[3] <= o[3]

\* the pre-pass: "<prefix> - <DESC> - Rev X" becomes "<prefix> - Rev X"
\* when DESC holds no digit
CollapseDescriptor(name) ==
    IF PartLikeMatches(name) = {} THEN name
    ELSE LET m      == PartLikeFirst(name)
             n      == Len(name)
             g      == CHOOSE j \in 0..n :
                           /\ \A k \in (j + 1)..n : name[k] \in SpaceChars
                           /\ At(name, j) \notin SpaceChars
             f      == RunEnd(name, RunEnd(name, m[3] + 1, SpaceChars) + 2, SpaceChars)
             prefix == SubSeq(name, 1, m[1])
             desc   == Strip(SubSeq(name, m[2] + 1, m[3]), SpaceChars)
             rev    == SubSeq(name, f + 1, g)
         IN  IF desc # <<>> /\ \A k \in 1..Len(desc) : desc[k] \notin DigitChars
             THEN Strip(prefix, SpaceChars) \o <<" ", "-", " ">> \o rev
             ELSE name

\* end of rev[\s_\-]?[a-z0-9]+ started at index p, 0 if it does not match
RevSuffixEnd(s, p) ==
    IF ~LitAt(s, p, <<"r", "e", "v">>) THEN 0
    ELSE IF At(s, p + 3) \in SepChars /\ At(s, p + 4) \in AlnumChars
         THEN RunEnd(s, p + 4, AlnumChars)
    ELSE IF At(s, p + 3) \in AlnumChars THEN RunEnd(s, p + 3, AlnumChars)
    ELSE 0

\* end of ([_\-\s]?rev[\s_\-]?[a-z0-9]+|_[a-z0-9]$) matched at index i, 0 if none
RevisionMatchEnd(s, i) ==
    IF At(s, i) \in SepChars /\ RevSuffixEnd(s, i + 1) > 0 THEN RevSuffixEnd(s, i + 1)
    ELSE IF RevSuffixEnd(s, i) > 0 THEN RevSuffixEnd(s, i)
    ELSE IF At(s, i) = "_" /\ At(s, i + 1) \in AlnumChars /\ i + 1 = Len(s) THEN i + 1
    ELSE 0

RECURSIVE RemoveRevisions(_, _)
\* re.sub(pattern, "", name): every non-overlapping match, left to right
RemoveRevisions(s, i) ==
    IF i > Len(s) THEN <<>>
    ELSE IF RevisionMatchEnd(s, i) > 0 THEN RemoveRevisions(s, RevisionMatchEnd(s, i) + 1)
    ELSE <<s[i]>> \o RemoveRevisions(s, i + 1)

\* FolderBuilder._strip_revision
_strip_revision(filename) ==
    Strip(RemoveRevisions(CollapseDescriptor(StemOf(filename)), 1), {"_", "-", " "})
        \o SuffixOf(filename)

----------------------------------------------------------------------------
(* FolderBuilder._detect_bucket *)

\* [-_.:]
PunctChars == {"-", "_", ".", ":"}

\* the run [A-Z0-9]+ started at index q; <<>> when it is empty
AlnumRunAt(s, q) ==
    IF At(s, q) \in AlnumChars THEN SubSeq(s, q, RunEnd(s, q, AlnumChars)) ELSE <<>>

\* index after \s*[-_.:]*\s* started at index q
AfterRevSeparators(s, q) ==
    RunEnd(s, RunEnd(s, RunEnd(s, q, SpaceChars) + 1, PunctChars) + 1, SpaceChars) + 1

\* group 1 of  rev(?:ision)?\s*[-_.:]*\s*([A-Z0-9]+)  started at index i
BucketRevGroup(s, i) ==
    IF ~LitAt(s, i, <<"r", "e", "v">>) THEN <<>>
    ELSE IF /\ LitAt(s, i + 3, <<"i", "s", "i", "o", "n">>)
            /\ AlnumRunAt(s, AfterRevSeparators(s, i + 8)) # <<>>
         THEN AlnumRunAt(s, AfterRevSeparators(s, i + 8))
    ELSE AlnumRunAt(s, AfterRevSeparators(s, i + 3))

\* group 1 of  r(?:\s*[-_.:]+\s*|\s+|(?=[0-9]))([A-Z0-9]+)  started at index i
BucketRGroup(s, i) ==
    IF LowerChar(At(s, i)) # "r" THEN <<>>
    ELSE LET sp == RunEnd(s, i + 1, SpaceChars) + 1
             pu == RunEnd(s, sp, PunctChars) + 1
         IN  IF pu > sp /\ AlnumRunAt(s, RunEnd(s, pu, SpaceChars) + 1) # <<>>
             THEN AlnumRunAt(s, RunEnd(s, pu, SpaceChars) + 1)
             ELSE IF sp > i + 1 /\ AlnumRunAt(s, sp) # <<>> THEN AlnumRunAt(s, sp)
             ELSE IF At(s, i + 1) \in DigitChars THEN AlnumRunAt(s, i + 1)
             ELSE <<>>

\* (?=\.[^.]+$|$) at index q
AtExtensionOrEnd(s, q) ==
    \/ q = Len(s) + 1
    \/ /\ At(s, q) = "."
       /\ q < Len(s)
       /\ \A k \in (q + 1)..Len(s) : s[k] # "."

\* group 2 of  [-_]([A-Z0-9]{1,2})(?=\.[^.]+$|$)  started at index i
BucketSuffixGroup(s, i) ==
    IF At(s, i) \notin {"-", "_"} THEN <<>>
    ELSE IF At(s, i + 1) \in AlnumChars /\ At(s, i + 2) \in AlnumChars
            /\ AtExtensionOrEnd(s, i + 3)
         THEN SubSeq(s, i + 1, i + 2)
    ELSE IF At(s, i + 1) \in AlnumChars /\ AtExtensionOrEnd(s, i + 2)
         THEN SubSeq(s, i + 1, i + 1)
    ELSE <<>>

\* match.group(1) or match.group(2) of the pattern tried at index i
BucketGroupAt(s, i) ==
    IF WordBoundary(s, i) /\ BucketRevGroup(s, i) # <<>> THEN BucketRevGroup(s, i)
    ELSE IF WordBoundary(s, i) /\ BucketRGroup(s, i) # <<>> THEN BucketRGroup(s, i)
    ELSE BucketSuffixGroup(s, i)

\* FolderBuilder._detect_bucket: re.search takes the leftmost match
_detect_bucket(filename, prefix) ==
    LET hits == {i \in 1..Len(filename) : BucketGroupAt(filename, i) # <<>>}
    IN  IF hits = {} THEN prefix \o <<" ", "-", " ", "U", "n", "k", "n", "o", "w", "n">>
        ELSE prefix \o UpperStr(BucketGroupAt(filename,
                                   CHOOSE i \in hits : \A j \in hits : i <= j))

\* _copy_drawings with the revision bucket given to erection drawings only
DrawingTargetDirErectionOnly(category, filename) ==
    IF category = "erection" THEN <<category, _detect_bucket(filename, <<"E">>)>>
    ELSE <<category>>

\* _copy_drawings: the folder a drawing of a category is copied into, as the
\* path below the output base (erection and field get a revision bucket)
DrawingTargetDir(category, filename) ==
    IF category = "erection" THEN <<category, _detect_bucket(filename, <<"E">>)>>
    ELSE IF category = "field" THEN <<category, _detect_bucket(filename, <<"F">>)>>
    ELSE <<category>>

----------------------------------------------------------------------------
(* TypeDetector on the archive filename *)

CurrentYearChars == <<"2", "0", "2", "6">>

RECURSIVE RemoveLit(_, _, _)
\* str.replace(lit, "")
RemoveLit(s, lit, i) ==
    IF i > Len(s) THEN <<>>
    ELSE IF LitAt(s, i, lit) THEN RemoveLit(s, lit, i + Len(lit))
    ELSE <<s[i]>> \o RemoveLit(s, lit, i + 1)

\* zip_name.lower().replace(".zip", "").replace("-", " ").replace("_", " ")
NormalizeZipName(zip_name) ==
    LET s == RemoveLit(LowerStr(zip_name), <<".", "z", "i", "p">>, 1)
    IN  [i \in 1..Len(s) |-> IF s[i] \in {"-", "_"} THEN " " ELSE s[i]]

\* JOB_NUM_REGEX.findall: the runs of exactly four digits, left to right
JobNumRuns(s) ==
    LET starts == {i \in 1..Len(s) :
                      /\ \A k \in i..(i + 3) : At(s, k) \in DigitChars
                      /\ At(s, i - 1) \notin DigitChars
                      /\ At(s, i + 4) \notin DigitChars}
        idx == SelectSeq([i \in 1..Len(s) |-> i], LAMBDA i : i \in starts)
    IN  [k \in 1..Len(idx) |-> SubSeq(s, idx[k], idx[k] + 3)]

\* the first run that is not the current year, <<>> when there is none
FirstJobNumber(s) ==
    LET runs == SelectSeq(JobNumRuns(s), LAMBDA r : r # CurrentYearChars)
    IN  IF runs = <<>> THEN <<>> ELSE Head(runs)

\* group 1 of TRANS_REGEX after its keyword, the keyword ending before index q:
\*   [\s#]*0*(\d{1,3})(?=\b|[^0-9])  -- the digits must reach the end of their run
TransDigits(s, q) ==
    LET z     == RunEnd(s, q, {" ", "#"}) + 1
        last  == RunEnd(s, z, DigitChars)
        zeros == RunEnd(s, z, {"0"}) - z + 1
        len   == last - z + 1
    IN  IF len = 0 THEN <<>>
        ELSE IF zeros = len THEN <<"0">>
        ELSE IF len - zeros <= 3 THEN SubSeq(s, z + zeros, last)
        ELSE <<>>

\* group 1 of TRANS_REGEX tried at index i: \btransmittal, \btr, \bt in turn
TransGroupAt(s, i) ==
    IF ~WordBoundary(s, i) THEN <<>>
    ELSE IF LitAt(s, i, <<"t", "r", "a", "n", "s", "m", "i", "t", "t", "a", "l">>)
            /\ TransDigits(s, i + 11) # <<>>
         THEN TransDigits(s, i + 11)
    ELSE IF LitAt(s, i, <<"t", "r">>) /\ TransDigits(s, i + 2) # <<>>
         THEN TransDigits(s, i + 2)
    ELSE IF LitAt(s, i, <<"t">>) THEN TransDigits(s, i + 1)
    ELSE <<>>

\* f"T{int(group)}", the number without its zero padding
FormatTransmittalUnpadded(digits) ==
    <<"T">> \o digits

\* f"T{int(group):03d}"
FormatTransmittal(digits) ==
    <<"T">> \o [k \in 1..(3 - Len(digits)) |-> "0"] \o digits

\* TRANS_REGEX.search(s) rendered as T###, <<>> when nothing matches
TransmittalIn(s) ==
    LET hits == {i \in 1..Len(s) : TransGroupAt(s, i) # <<>>}
    IN  IF hits = {} THEN <<>>
        ELSE FormatTransmittal(TransGroupAt(s, CHOOSE i \in hits : \A j \in hits : i <= j))

IFA_PATTERNS ==
    {<<"i", "f", "a">>,
     <<"f", "o", "r", "_", "a", "p", "p", "r", "o", "v", "a", "l">>,
     <<"i", "n", "_", "f", "o", "r", "_", "a", "p", "p", "r", "o", "v", "a", "l">>,
     <<"a", "p", "p", "r", "o", "v", "a", "l", "_", "d", "w", "g">>,
     <<"r", "e", "v", "i", "e", "w", "_", "s", "e", "t">>}

IFF_PATTERNS ==
    {<<"i", "f", "f">>,
     <<"f", "o", "r", "_", "f", "a", "b", "r", "i", "c", "a", "t", "i", "o", "n">>,
     <<"f", "a", "b", "r", "i", "c", "a", "t", "i", "o", "n">>,
     <<"f", "o", "r", "_", "c", "o", "n", "s", "t", "r", "u", "c", "t", "i", "o", "n">>,
     <<"i", "n", "_", "f", "o", "r", "_", "f", "a", "b", "r", "i", "c", "a", "t", "i", "o", "n">>,
     <<"c", "o", "n", "s", "t", "r", "u", "c", "t", "i", "o", "n", "_", "s", "e", "t">>,
     <<"f", "a", "b", "r", "i", "c", "a", "t", "i", "o", "n", "_", "s", "e", "t">>}

LetterChars == Range(LowerLetters) \cup Range(UpperLetters)

\* IFA_REGEX  \brev[\s_\-]*[A-Z]{1,2}\b  matches somewhere in s
IfaRegexSearch(s) ==
    \E i \in 1..Len(s) :
        /\ WordBoundary(s, i)
        /\ LitAt(s, i, <<"r", "e", "v">>)
        /\ LET q == RunEnd(s, i + 3, SepChars) + 1
               e == RunEnd(s, q, LetterChars)
           IN  e - q + 1 \in {1, 2} /\ At(s, e + 1) \notin WordChars

\* IFF_REGEX  rev[\s_\-]*\d+  matches somewhere in s
IffRegexSearch(s) ==
    \E i \in 1..Len(s) :
        /\ LitAt(s, i, <<"r", "e", "v">>)
        /\ At(s, RunEnd(s, i + 3, SepChars) + 1) \in DigitChars

Unknown == <<"U", "N", "K", "N", "O", "W", "N">>

\* name.replace("-", " ").replace("_", " ")
SpaceSeparators(s) ==
    [i \in 1..Len(s) |-> IF s[i] \in {"-", "_"} THEN " " ELSE s[i]]

IfaKeyword(s) == \E p \in IFA_PATTERNS : Contains(s, p)
IffKeyword(s) == \E p \in IFF_PATTERNS : Contains(s, p)

RECURSIVE IfaScore(_)
\* the scores _scan_contents_for_type gives the two families over the listing
IfaScore(info_list) ==
    IF info_list = <<>> THEN 0
    ELSE (IF IfaKeyword(LowerStr(Head(info_list))) THEN 2 ELSE 0)
         + (IF IfaRegexSearch(LowerStr(Head(info_list))) THEN 1 ELSE 0)
         + IfaScore(Tail(info_list))

RECURSIVE IffScore(_)
IffScore(info_list) ==
    IF info_list = <<>> THEN 0
    ELSE (IF IffKeyword(LowerStr(Head(info_list))) THEN 2 ELSE 0)
         + (IF IffRegexSearch(LowerStr(Head(info_list))) THEN 1 ELSE 0)
         + IffScore(Tail(info_list))

_scan_contents_for_type(info_list) ==
    LET ifa_score == IfaScore(info_list)
        iff_score == IffScore(info_list)
    IN  IF ifa_score > iff_score /\ ifa_score > 0 THEN "IFA"
        ELSE IF iff_score > ifa_score /\ iff_score > 0 THEN "IFF"
        ELSE "UNKNOWN"

RECURSIVE _scan_contents_for_transmittal_number(_)
_scan_contents_for_transmittal_number(info_list) ==
    IF info_list = <<>> THEN Unknown
    ELSE IF TransmittalIn(SpaceSeparators(LowerStr(Head(info_list)))) # <<>>
         THEN TransmittalIn(SpaceSeparators(LowerStr(Head(info_list))))
    ELSE _scan_contents_for_transmittal_number(Tail(info_list))

RECURSIVE _scan_contents_for_job_number(_)
_scan_contents_for_job_number(info_list) ==
    IF info_list = <<>> THEN Unknown
    ELSE IF FirstJobNumber(LowerStr(Head(info_list))) # <<>>
         THEN FirstJobNumber(LowerStr(Head(info_list)))
    ELSE _scan_contents_for_job_number(Tail(info_list))

\* the three detectors: the value found and whether the contents were scanned
detect_type_of(zip_name, info_list) ==
    LET s == LowerStr(zip_name)
    IN  IF IfaKeyword(s) \/ IfaRegexSearch(s) THEN [value |-> "IFA", scanned |-> FALSE]
        ELSE IF IffKeyword(s) \/ IffRegexSearch(s) THEN [value |-> "IFF", scanned |-> FALSE]
        ELSE [value |-> _scan_contents_for_type(info_list), scanned |-> TRUE]

detect_transmittal_number_of(zip_name, info_list) ==
    LET found == TransmittalIn(NormalizeZipName(zip_name))
    IN  IF found # <<>> THEN [value |-> found, scanned |-> FALSE]
        ELSE [value |-> _scan_contents_for_transmittal_number(info_list), scanned |-> TRUE]

detect_job_number_of(zip_name, info_list) ==
    LET found == FirstJobNumber(NormalizeZipName(zip_name))
    IN  IF found # <<>> THEN [value |-> found, scanned |-> FALSE]
        ELSE [value |-> _scan_contents_for_job_number(info_list), scanned |-> TRUE]

----------------------------------------------------------------------------
(* Filenames through the naming functions of FolderBuilder and the          *)
(* filename part of TypeDetector: one drawing of a category is copied by    *)
(* _copy_drawings, or one archive name is examined by the detector.        *)

\* pieces the stems of the filenames are put together from
NameTokens ==
    <<<<"R", "e", "v", " ", "0">>,
      <<"_", "r", "e", "v", "1">>,
      <<"_", "a">>,
      <<"6", "5", "1", "6">>,
      <<"_", "T", "0", "7", "7">>,
      <<"2", "0", "2", "6", "_">>>>

\* stems named by the scenarios and by the comments of _strip_revision
ExampleStems ==
    {<<"p", "6", "9", "8", " ", "-", " ", "P", "L", "A", "T", "E", " ", "-", " ", "R", "e", "v", " ", "0">>,
     <<"E", "-", "S", "h", "e", "e", "t", "_", "R", "e", "v", "_", "A">>,
     <<"6", "5", "1", "6", "_", "I", "F", "F", "_", "T", "0", "7", "7">>,
     <<"p", "6", "9", "8", "_", "a", "_", "r", "e", "v", "1">>,
     <<"6", "5", "1", "6", " ", "I", "F", "F", " ", "R", "e", "v", " ", "A">>,
     <<"6", "5", "1", "6", "_", "I", "F", "A", "_", "I", "F", "F">>,
     <<"A", "B", "1", "2", "-", "0", "3", " ", "-", " ", "B", "O", "L", "L", "A", "R", "D", " ", "2", " ", "-", " ", "R", "e", "v", "i", "s", "i", "o", "n", " ", "A">>}

RECURSIVE ConcatTokens(_)
ConcatTokens(ix) ==
    IF ix = <<>> THEN <<>> ELSE NameTokens[Head(ix)] \o ConcatTokens(Tail(ix))

NameStems ==
    ExampleStems \cup
    {ConcatTokens(ix) : ix \in UNION {[1..k -> 1..Len(NameTokens)] : k \in 1..MaxTokens}}

\* names the archive may list
EntryNames ==
    <<<<"7", "0", "0", "1", "/", "t", "r", "5", " ", "f", "o", "r", "_", "a", "p", "p", "r", "o", "v", "a", "l", ".", "p", "d", "f">>,
      <<"7", "0", "0", "2", "_", "T", "1", "2", "/", "f", "a", "b", "r", "i", "c", "a", "t", "i", "o", "n", "/", "r", "e", "v", "2", ".", "n", "c", "1">>,
      <<"r", "e", "a", "d", "m", "e", ".", "t", "x", "t">>>>

\* ZipHandler.info_list(): up to MaxEntries of the names, in any order
Listings ==
    {[k \in 1..Len(ix) |-> EntryNames[ix[k]]] :
        ix \in UNION {[1..n -> 1..Len(EntryNames)] : n \in 0..MaxEntries}}

PdfSuffix == <<".", "p", "d", "f">>
ZipSuffix == <<".", "z", "i", "p">>

InitNames ==
    /\ pipelineIdle
    /\ ClassifierIdle
    /\ DistributorIdle
    /\ ExtraIdle
    /\ \E stem \in NameStems :
          \/ /\ fkind = "drawing"
             /\ fname = stem \o PdfSuffix
             /\ fcat \in DrawingCategories
          \/ /\ fkind = "archive"
             /\ fname = stem \o ZipSuffix
             /\ fcat = "none"
    /\ IF fkind = "archive" THEN flisting \in Listings ELSE flisting = <<>>
    /\ fpc = "new"
    /\ fcopy = NoCopy
    /\ restripped = <<>>
    /\ detected = NoDetection

\* _copy_drawings for one file of one category: the target folder and the
\* name _rename_and_copy gives the copy (non-PDF files are passed over)
CopyDrawing ==
    /\ fpc = "new"
    /\ fkind = "drawing"
    /\ IF LowerStr(SuffixOf(fname)) # PdfSuffix
       THEN /\ fpc' = "skipped"
            /\ fcopy' = fcopy
       ELSE /\ fpc' = "copied"
            /\ fcopy' = [dir  |-> DrawingTargetDir(fcat, fname),
                          name |-> _strip_revision(fname)]
    /\ UNCHANGED <<pipeVars, classVars, distVars, extraVars, fname, fkind, fcat, flisting, restripped, detected>>

\* _strip_revision applied to a name it has produced
StripAgain ==
    /\ fpc = "copied"
    /\ fpc' = "restripped"
    /\ restripped' = _strip_revision(fcopy.name)
    /\ UNCHANGED <<pipeVars, classVars, distVars, extraVars, fname, fkind, fcat, flisting, fcopy, detected>>

\* BackendFacade.detect_types: type, transmittal number and job number of
\* the archive, each from its filename or else from its listing; the log
\* names the detections that scanned the contents
detect_types ==
    /\ fpc = "new"
    /\ fkind = "archive"
    /\ fpc' = "detected"
    /\ \E ty \in {detect_type_of(fname, flisting)},
          tn \in {detect_transmittal_number_of(fname, flisting)},
          jn \in {detect_job_number_of(fname, flisting)} :
          detected' = [transmittal_type   |-> ty.value,
                       transmittal_number |-> tn.value,
                       job_number         |-> jn.value,
                       log |-> (IF ty.scanned THEN <<"type">> ELSE <<>>)
                               \o (IF tn.scanned THEN <<"transmittal">> ELSE <<>>)
                               \o (IF jn.scanned THEN <<"job">> ELSE <<>>)]
    /\ UNCHANGED <<pipeVars, classVars, distVars, extraVars, fname, fkind, fcat, flisting, fcopy, restripped>>

NextNames == CopyDrawing \/ StripAgain \/ detect_types

SpecNames == InitNames /\ [][NextNames]_vars

----------------------------------------------------------------------------
(* Properties of process_transmittal, checked under Spec *)

Returned  == pc = "done"
Succeeded == Returned /\ result.success = TRUE
Failed    == Returned /\ result.success = FALSE

StageOrder ==
    <<"extract", "detect", "resolve", "classify", "build", "cover", "finalize",
      "distribute", "cleanup">>
StageIndex(s) == CHOOSE i \in 1..Len(StageOrder) : StageOrder[i] = s
OutputStages == {"classify", "build", "cover", "finalize", "distribute"}

\* C1: for every call that allocated a working directory, that directory no
\* longer exists when the call returns, on success and on every failure.
C1_WorkDirGoneOnReturn ==
    (Returned /\ handlerTempDir # NoDir) => handlerTempDir \notin tempDirs

\* C2: a top-level archive that is not well-formed makes extraction fail with
\* the invalid-archive error, the call returns a failure, and the working
\* directory the extractor allocated does not exist after the return.
C2_InvalidArchiveLeavesNothing ==
    (Returned /\ "extract" \in Range(ran)
              /\ zipFile.kind = "file" /\ ~zipFile.wellFormed)
        => /\ result.success = FALSE
           /\ result.error = "BadZipFile"
           /\ handlerTempDir \notin tempDirs

C4_StagesInOrder ==
    /\ \A i, j \in 1..Len(ran) : i < j => StageIndex(ran[i]) < StageIndex(ran[j])
    /\ Succeeded =>
          /\ (Range(StageOrder) \ {"distribute"}) \subseteq Range(ran)
          /\ builtOutput.xml_patched
          /\ failedAt = "none"
    /\ (failedAt # "none") =>
          /\ \A i \in 1..Len(ran) :
                ran[i] = failedAt \/ ran[i] = "cleanup"
                  \/ (failedAt # "validate" /\ StageIndex(ran[i]) < StageIndex(failedAt))
          /\ Returned => result.success = FALSE

C4_Witness ==
    Returned /\ failedAt = "finalize" /\ ran[Len(ran)] = "cleanup"

\* C5: a job number supplied by the caller is the one used for the output
\* path and returned in the result, whatever detection finds.
C5_SuppliedJobNumberWins ==
    (Returned /\ args.job_number # None)
        => /\ result.job_data.job_number = args.job_number
           /\ builtOutput # None => builtOutput.base[1] = args.job_number

\* C6: when detection yields no job number and the caller supplied none, the
\* run fails at resolve-job-number: classify, build-layout, build-cover-sheet,
\* finalize and distribute never run and no output is built.
C6_UnresolvedJobNumberIsFatal ==
    ("detect" \in Range(ran) /\ detect_job_number(zipFile) = UNKNOWN
                             /\ args.job_number = None)
        => /\ Range(ran) \cap OutputStages = {}
           /\ builtOutput = None
           /\ pc \in {"resolve", "except", "done"}
           /\ Returned => (result.success = FALSE /\ failedAt = "resolve")

C6_Witness ==
    Failed /\ failedAt = "resolve" /\ args.job_number = None
           /\ job_data.job_number = UNKNOWN

\* C7: an archive_path that does not name an existing file, or names a file
\* without the archive extension, fails fast: failure result, no working
\* directory allocated, output root not created, no stage run.
C7_FailFastOnBadPath ==
    (Returned /\ (zipFile.kind # "file" \/ ~zipFile.suffixIsZip))
        => /\ result.success = FALSE
           /\ handlerTempDir = NoDir
           /\ tempDirs = {}
           /\ ~outputRootExists
           /\ ran = <<>>

\* C8: distribute runs exactly when the caller's flag and the global flag are
\* both true; otherwise nothing is created under a network root, and the run
\* can still succeed.
C8_DistributeIffBothFlags ==
    LET both == args.distribute_data /\ DISTRIBUTION_ENABLED
    IN  /\ "distribute" \in Range(ran) => both
        /\ (both /\ (pc \in {"cleanup", "finish"} \/ Succeeded))
              => "distribute" \in Range(ran)
        /\ ~both => netDirs = {}

C8_Witness ==
    Succeeded /\ args.distribute_data /\ ~DISTRIBUTION_ENABLED /\ netDirs = {}

----------------------------------------------------------------------------
(* Properties of FileClassifier.classify, checked under SpecClassify *)

FileCategories ==
    {"fab", "erection", "field", "parts", "void", "nc1", "dxf", "enc",
     "nc_issue", "import", "model", "zips", "other"}

Beneath(f, z) == f # z /\ is_relative_to(tree, f, z)

\* C9: in the classified set no zeman entry is a member of another category,
\* and no file beneath a zeman entry is a member of fab, erection, field,
\* parts, void, nc1, dxf, enc, nc_issue, import, model, zips or other.
C9_ZemanDisjoint ==
    categories # NoCategories =>
        \A z \in Range(categories["zeman"]) :
            /\ \A c \in CategoryNames \ {"zeman"} : z \notin Range(categories[c])
            /\ \A f \in 1..tree.n : Beneath(f, z) =>
                  \A c \in FileCategories : f \notin Range(categories[c])

C9_Witness ==
    /\ classifyCalls >= 1
    /\ \E z \in Range(categories["zeman"]) :
          \E f \in 1..tree.n : Beneath(f, z) /\ is_file(tree, f)
    /\ \E c \in FileCategories : categories[c] # <<>>

\* C10: re-running classify() on an unmodified working directory yields a
\* mapping identical to the first run's, nothing added, removed or duplicated.
C10_RerunIdentical ==
    classifyCalls >= 2 => categories = firstMapping

\* C11: in the mapping returned by classify() on a fresh classifier every
\* file is a member of at most one category among fab, erection, field,
\* parts, void, nc1, dxf, enc, nc_issue, import, model, zips and other.
C11_AtMostOneCategory ==
    (categories # NoCategories /\ classifyRuns = 1) =>
        \A f \in 1..tree.n :
            Cardinality({c \in FileCategories : f \in Range(categories[c])}) <= 1

----------------------------------------------------------------------------
(* Properties of DistributionHandler, checked under SpecDistribute *)

Distributed == dh.pc = "done"

SkipLogged(c) ==
    \E i \in 1..Len(dLog) : dLog[i].message = <<"Skipping", c>>

RoutedCategories == Range(RoutingOrder)

\* C12: when the delivery type is IFA only files of the erection category
\* are copied under the network roots and every other routed category has a
\* logged skip entry; for every other delivery type no category is skipped
\* by the allow-list.
C12_IfaErectionOnly ==
    /\ (dh.pc # "none" /\ dh.transmittal_type = "IFA") =>
          \A e \in netFiles : /\ e[2] \in built["erection"]
                               /\ e[1] = RoutingTable(dh, "erection")
    /\ (Distributed /\ dh.transmittal_type = "IFA") =>
          /\ DOMAIN dResult.distribution_map \subseteq {"erection"}
          /\ \A c \in RoutedCategories \ {"erection"} : SkipLogged(c)
    /\ (Distributed /\ dh.transmittal_type # "IFA") =>
          \A c \in RoutedCategories : ~SkipLogged(c)

C12_Witness ==
    /\ Distributed
    /\ dh.transmittal_type = "IFA"
    /\ built["fab"] # {} /\ built["field"] # {} /\ built["nc1"] # {}
    /\ built["zeman"] # {}
    /\ \E e \in netFiles : e[2] \in built["erection"]

\* C13: constructing the distribution router creates, deletes or renames no
\* directory under a network root.
C13_DiscoveryReadOnly ==
    [][dh.pc = "new" => net' = net]_vars

DistributedFiles ==
    UNION {dResult.distribution_map[c] : c \in DOMAIN dResult.distribution_map}

DistributedStems(suffix) ==
    {f[1] : f \in {g \in DistributedFiles : g[2] = suffix}}

\* C14: the count reported for nc1 (dxf) equals the number of distinct
\* .nc1 (.dxf) filename stems among the distributed files, also when a stem
\* is present both in the category's folder and in the combined folder.
C14_StemCounts ==
    Distributed =>
        /\ "nc1" \in DOMAIN dResult.count_data =>
              dResult.count_data["nc1"] = Cardinality(DistributedStems(".nc1"))
        /\ "dxf" \in DOMAIN dResult.count_data =>
              dResult.count_data["dxf"] = Cardinality(DistributedStems(".dxf"))

C14_Witness ==
    /\ Distributed
    /\ {"nc1", "dxf", "nc_dxf"} \subseteq DOMAIN dResult.distribution_map
    /\ <<"a", ".nc1">> \in dResult.distribution_map["nc1"]
                           \cap dResult.distribution_map["nc_dxf"]
    /\ dResult.count_data["nc1"] = 2
    /\ dResult.count_data["dxf"] = 1

\* C15: the count reported for the combined NC-DXF category is the size of
\* the union of the nc1 stem set and the dxf stem set.
C15_CombinedCountIsUnion ==
    (Distributed /\ "nc_dxf" \in DOMAIN dResult.count_data) =>
        dResult.count_data["nc_dxf"] =
            Cardinality(DistributedStems(".nc1") \cup DistributedStems(".dxf"))

----------------------------------------------------------------------------
(* Properties of the naming functions, checked under SpecNames *)

Copied == fpc \in {"copied", "restripped"}

\* C16: revision-stripping is idempotent: stripping a name that
\* _strip_revision has produced gives the same name again.
C16_StripIdempotent ==
    fpc = "restripped" => restripped = fcopy.name

PlateRev0 == <<"p", "6", "9", "8", " ", "-", " ", "P", "L", "A", "T", "E", " ", "-", " ", "R", "e", "v", " ", "0", ".", "p", "d", "f">>

\* C17: 'p698 - PLATE - Rev 0.pdf', a three-segment name whose descriptor
\* holds no digit, is stripped to 'p698 - Rev 0.pdf'.
C17_DescriptorCollapse ==
    (Copied /\ fname = PlateRev0) =>
        fcopy.name = <<"p", "6", "9", "8", " ", "-", " ", "R", "e", "v", " ", "0", ".", "p", "d", "f">>

\* a run of exactly four digits at index i that is not the current year
NonYearRunAt(s, i) ==
    /\ \A k \in i..(i + 3) : At(s, k) \in DigitChars
    /\ At(s, i - 1) \notin DigitChars
    /\ At(s, i + 4) \notin DigitChars
    /\ SubSeq(s, i, i + 3) # CurrentYearChars

IffT077 == <<"6", "5", "1", "6", "_", "I", "F", "F", "_", "T", "0", "7", "7", ".", "z", "i", "p">>

\* C18: '6516_IFF_T077.zip' gives job number 6516, type IFF and transmittal
\* T077 with no scan of the contents; the job number is the first run of
\* four digits of the normalized filename that is not the current year; a
\* detected transmittal number is 'T' followed by exactly three digits.
C18_FilenameDetection ==
    fpc = "detected" =>
        /\ fname = IffT077 =>
              /\ detected.job_number = <<"6", "5", "1", "6">>
              /\ detected.transmittal_type = "IFF"
              /\ detected.transmittal_number = <<"T", "0", "7", "7">>
              /\ detected.log = <<>>
        /\ \A i \in 1..Len(fname) :
              (/\ NonYearRunAt(NormalizeZipName(fname), i)
               /\ \A j \in 1..(i - 1) : ~NonYearRunAt(NormalizeZipName(fname), j))
              => detected.job_number = SubSeq(NormalizeZipName(fname), i, i + 3)
        /\ detected.transmittal_number # Unknown =>
              /\ Len(detected.transmittal_number) = 4
              /\ detected.transmittal_number[1] = "T"
              /\ \A k \in 2..4 : detected.transmittal_number[k] \in DigitChars

C18_Witness ==
    /\ fpc = "detected"
    /\ fname = IffT077
    /\ flisting # <<>>
    /\ detected.job_number = <<"6", "5", "1", "6">>
    /\ detected.transmittal_number = <<"T", "0", "7", "7">>

ESheetRevA == <<"E", "-", "S", "h", "e", "e", "t", "_", "R", "e", "v", "_", "A", ".", "p", "d", "f">>

BucketPrefix == [erection |-> <<"E">>, field |-> <<"F">>]

\* C19: an erection or field PDF is copied into a sub-folder of its category
\* folder named prefix + revision token (in upper case, a piece of the
\* filename) or '<prefix> - Unknown', never into the category folder itself;
\* erection 'E-Sheet_Rev_A.pdf' goes to 'EA'; fab, parts and void files go
\* into the category folder itself.
C19_RevisionBuckets ==
    Copied =>
        /\ fcat \in {"erection", "field"} =>
              /\ Len(fcopy.dir) = 2
              /\ fcopy.dir[1] = fcat
              /\ LET bucket == fcopy.dir[2]
                     rev    == Tail(bucket)
                 IN  /\ bucket # <<>>
                     /\ <<Head(bucket)>> = BucketPrefix[fcat]
                     /\ \/ rev = <<" ", "-", " ", "U", "n", "k", "n", "o", "w", "n">>
                        \/ /\ rev # <<>>
                           /\ \A k \in 1..Len(rev) :
                                 rev[k] \in Range(UpperLetters) \cup DigitChars
                           /\ Contains(fname, LowerStr(rev))
        /\ (fcat = "erection" /\ fname = ESheetRevA) =>
              fcopy.dir = <<"erection", <<"E", "A">>>>
        /\ fcat \in {"fab", "parts", "void"} => fcopy.dir = <<fcat>>

C19_Witness ==
    /\ fpc = "copied"
    /\ fcat = "erection"
    /\ fname = ESheetRevA
    /\ fcopy.dir = <<"erection", <<"E", "A">>>>

----------------------------------------------------------------------------
(* Properties of the fab fallback of classify(), checked under SpecClassify *)

\* the fab entries the folder rules give on the working directory
FolderFab ==
    Range(FolderPass(tree,
            _collect_original_files(tree,
                _collect_all_zeman_folders(tree, EmptyCategories, 1)), 1)["fab"])

\* the PDFs below a folder named "pdf assemblies" and outside every Zeman folder
AssemblyPdfs ==
    {f \in 1..tree.n :
        /\ is_file(tree, f)
        /\ Suffix(NameOf(tree, f)) = ".pdf"
        /\ \E d \in 1..tree.n :
              /\ d # f
              /\ is_dir(tree, d)
              /\ Lower(NameOf(tree, d)) = "pdf assemblies"
              /\ is_relative_to(tree, f, d)
        /\ \A z \in Range(categories["zeman"]) : ~is_relative_to(tree, f, z)}

\* C20: when the folder rules give no fab entry, fab holds after classify()
\* exactly the PDFs below folders named "pdf assemblies" that are outside
\* the Zeman folders; when they give a fab entry, the fallback adds nothing.
C20_FabFallback ==
    classifyRuns >= 1 =>
        /\ FolderFab = {} => Range(categories["fab"]) = AssemblyPdfs
        /\ FolderFab # {} => Range(categories["fab"]) = FolderFab

C20_Witness ==
    /\ classifyRuns >= 1
    /\ FolderFab = {}
    /\ categories["fab"] # <<>>
    /\ Range(categories["fab"]) = AssemblyPdfs

----------------------------------------------------------------------------
(* The operation log during a run *)

IsPrefix(a, b) == Len(a) <= Len(b) /\ SubSeq(b, 1, Len(a)) = a

\* C22: the operation log is append-only for the whole of a run: every step
\* leaves the entries already logged unchanged and in place and only adds
\* entries at the end, so the length never decreases; and the summary in the
\* returned result is computed from the complete log as it stands at the return.
C22_LogAppendOnly ==
    /\ [][IsPrefix(log, log')]_vars
    /\ [](Returned => result.logs = LogSummary(log))

\* a successful run that logged at every stage and returned the summary of all of it
C22_Witness ==
    /\ Returned
    /\ result.success = TRUE
    /\ Len(log) >= 8
    /\ result.logs.total_entries = Len(log)

----------------------------------------------------------------------------
(* Temporary directories of a run *)

\* C30: a run allocates exactly one temporary directory, the working directory
\* of the extract stage; metadata detection and its content scans create none,
\* so no temporary directory other than that working directory ever exists
\* because of the run, and none is left that was not there before the call.
C30_OneTempDirPerRun ==
    /\ mkdtempCount <= 1
    /\ tempDirs \subseteq {handlerTempDir}
    /\ (Returned /\ result.success = TRUE /\ "Cleaned temp folder" \in
            {log[i].message : i \in 1..Len(log)}) => tempDirs = {}

----------------------------------------------------------------------------
(* Network write failures during distribution *)

\* C26: a failure of a single network destination write during distribution
\* (creating a destination directory, copying a file or a zeman folder) does
\* not abort the run: once the distribute stage has started, the run goes on
\* to cleanup and process_transmittal returns success with the built output.
C26_NetworkFailureTolerated ==
    (Returned /\ "distribute" \in Range(ran))
        => /\ result.success = TRUE
           /\ failedAt = "none"
           /\ job_data.final_output_folder # None

----------------------------------------------------------------------------
(* Delivery type by family scores *)

\* the text the type is decided on: the archive filename, or the listing when
\* the filename indicates neither family
CandidateTexts ==
    IF IfaScore(<<fname>>) = 0 /\ IffScore(<<fname>>) = 0 THEN flisting ELSE <<fname>>

\* C23: the delivery type is decided by comparing the two family scores of
\* the candidate text: it is IFA only if the IFA score is strictly higher,
\* IFF only if the IFF score is strictly higher, and unknown whenever the two
\* scores are equal, also when both families are indicated in the same text.
C23_StrictlyHigherScoreWins ==
    (fpc = "detected") =>
        LET ifa_score == IfaScore(CandidateTexts)
            iff_score == IffScore(CandidateTexts)
        IN  /\ detected.transmittal_type = "IFA" => ifa_score > iff_score
            /\ detected.transmittal_type = "IFF" => iff_score > ifa_score
            /\ ifa_score = iff_score => detected.transmittal_type = "UNKNOWN"

----------------------------------------------------------------------------
(* Email triage: EmailPatternDetector (email/email_pattern_detector.py).   *)
(* A source text (subject, body, joined attachment names) is given by what *)
(* the three extractors find in it; None is "not found".                   *)

EmailJobs  == {None, "6509", "6510"}
EmailTrans == {None, "T022"}
EmailTypes == {None, "IFA", "IFF"}
SourceTexts == [job_number : EmailJobs, transmittal_number : EmailTrans,
                transmittal_type : EmailTypes]

CoreIdle == pipelineIdle /\ ClassifierIdle /\ DistributorIdle /\ NamesIdle

CountTrue(bs) == Cardinality({i \in 1..Len(bs) : bs[i]})

ConfidenceOfCount(detected_count) ==
    IF detected_count >= 2 THEN "high"
    ELSE IF detected_count = 1 THEN "medium"
    ELSE "low"

_create_detection_result(job_number, transmittal_number, transmittal_type) ==
    [job_number         |-> job_number,
     transmittal_number |-> transmittal_number,
     transmittal_type   |-> transmittal_type,
     confidence         |-> ConfidenceOfCount(CountTrue(
                               <<job_number # None, transmittal_number # None,
                                 transmittal_type # None>>))]

\* detect_from_body / detect_from_attachment_names: the three extractors,
\* then _create_detection_result
DetectionOf(text) ==
    _create_detection_result(text.job_number, text.transmittal_number,
                             text.transmittal_type)

\* detect_from_subject: an excluded subject gives the empty result
SubjectDetection(e) ==
    IF e.subjectExcluded THEN _create_detection_result(None, None, None)
    ELSE DetectionOf(e.subject)

calculate_confidence(detections) ==
    LET n == Len(detections)
        job_sources   == Cardinality({i \in 1..n : detections[i].job_number # None})
        trans_sources == Cardinality({i \in 1..n : detections[i].transmittal_number # None})
        type_sources  == Cardinality({i \in 1..n : detections[i].transmittal_type # None})
        job_values    == {detections[i].job_number : i \in 1..n} \ {None}
        trans_values  == {detections[i].transmittal_number : i \in 1..n} \ {None}
        type_values   == {detections[i].transmittal_type : i \in 1..n} \ {None}
        has_conflicts == \/ Cardinality(job_values) > 1
                         \/ Cardinality(trans_values) > 1
                         \/ Cardinality(type_values) > 1
        agreeing_fields == CountTrue(<<job_sources >= 2, trans_sources >= 2, type_sources >= 2>>)
    IN  IF has_conflicts THEN "low"
        ELSE IF agreeing_fields >= 2 THEN "high"
        ELSE IF job_sources + trans_sources + type_sources >= 1 THEN "medium"
        ELSE "low"

RECURSIVE FirstFound(_, _)
\* "if result[field] and not final: final = result[field]" over the sources in order
FirstFound(detections, field) ==
    IF detections = <<>> THEN None
    ELSE IF Head(detections)[field] # None THEN Head(detections)[field]
    ELSE FirstFound(Tail(detections), field)

analyze_email_of(e) ==
    IF e.subjectExcluded \/ e.bodyExcluded
    THEN [job_number |-> None, transmittal_number |-> None, transmittal_type |-> None,
          confidence |-> "low", excluded |-> TRUE]
    ELSE LET detections == <<SubjectDetection(e), DetectionOf(e.body),
                             DetectionOf(e.attachments)>>
             final_job   == FirstFound(detections, "job_number")
             final_trans == FirstFound(detections, "transmittal_number")
             final_type  == FirstFound(detections, "transmittal_type")
             any_final   == final_job # None \/ final_trans # None \/ final_type # None
         IN  [job_number         |-> final_job,
              transmittal_number |-> final_trans,
              transmittal_type   |-> final_type,
              confidence         |-> IF e.has_cloud_link /\ any_final THEN "high"
                                     ELSE calculate_confidence(detections),
              excluded           |-> FALSE]

InitEmail ==
    /\ CoreIdle
    /\ CoverIdle
    /\ BuildIdle
    /\ CallsIdle
    /\ ExtractIdle
    /\ email \in [subject : SourceTexts, body : SourceTexts, attachments : SourceTexts,
                   subjectExcluded : BOOLEAN, bodyExcluded : BOOLEAN,
                   has_cloud_link : BOOLEAN]
    /\ eresult = None
    /\ epc = "new"

detect_from_subject ==
    /\ epc = "new"
    /\ epc' = "detect_from_subject"
    /\ eresult' = [job_number         |-> SubjectDetection(email).job_number,
                   transmittal_number |-> SubjectDetection(email).transmittal_number,
                   transmittal_type   |-> SubjectDetection(email).transmittal_type,
                   confidence         |-> SubjectDetection(email).confidence,
                   excluded           |-> email.subjectExcluded]
    /\ UNCHANGED <<coreVars, coverVars, buildVars, callVars, extractVars, email>>

detect_from_body ==
    /\ epc = "new"
    /\ epc' = "detect_from_body"
    /\ eresult' = DetectionOf(email.body)
    /\ UNCHANGED <<coreVars, coverVars, buildVars, callVars, extractVars, email>>

detect_from_attachment_names ==
    /\ epc = "new"
    /\ epc' = "detect_from_attachment_names"
    /\ eresult' = DetectionOf(email.attachments)
    /\ UNCHANGED <<coreVars, coverVars, buildVars, callVars, extractVars, email>>

analyze_email ==
    /\ epc = "new"
    /\ epc' = "analyze_email"
    /\ eresult' = analyze_email_of(email)
    /\ UNCHANGED <<coreVars, coverVars, buildVars, callVars, extractVars, email>>

NextEmail ==
    \/ detect_from_subject
    \/ detect_from_body
    \/ detect_from_attachment_names
    \/ analyze_email

SpecEmail == InitEmail /\ [][NextEmail]_vars

DetectedFields(r) ==
    CountTrue(<<r.job_number # None, r.transmittal_number # None, r.transmittal_type # None>>)

\* C24: every detection result of the email detector has confidence "high"
\* only if at least two of job number, transmittal number and delivery type
\* are detected in it, "medium" only if at least one is, and a result with
\* no detected field has confidence "low".
C24_ConfidenceCountsFields ==
    (epc \notin {"idle", "new"}) =>
        /\ eresult.confidence = "high" => DetectedFields(eresult) >= 2
        /\ eresult.confidence = "medium" => DetectedFields(eresult) >= 1
        /\ DetectedFields(eresult) = 0 => eresult.confidence = "low"

----------------------------------------------------------------------------
(* Cover sheet: PdfHandler.create_cover_sheet and natural_key              *)
(* (transmittal_processing/pdf_handler.py)                                 *)

MaxCoverFiles == 3

\* the character U+00B2 (superscript two): str.isdigit() is true for it,
\* \d does not match it and int() rejects it
Superscript2 == "sup2"

DigitSeq == <<"0", "1", "2", "3", "4", "5", "6", "7", "8", "9">>
DigitValue(ch) == (CHOOSE i \in 1..10 : DigitSeq[i] = ch) - 1

\* ord() of the characters of the stems
CodePoint(ch) ==
    IF ch \in DigitChars THEN 48 + DigitValue(ch)
    ELSE IF ch \in Range(UpperLetters)
         THEN 64 + (CHOOSE i \in 1..26 : UpperLetters[i] = ch)
    ELSE IF ch \in Range(LowerLetters)
         THEN 96 + (CHOOSE i \in 1..26 : LowerLetters[i] = ch)
    ELSE 178

RECURSIVE SplitDigitRuns(_)
\* re.split(r'(\d+)', stem): text, digits, text, ..., text
SplitDigitRuns(stem) ==
    IF \A k \in 1..Len(stem) : stem[k] \notin DigitChars THEN <<stem>>
    ELSE LET i == CHOOSE k \in 1..Len(stem) :
                      stem[k] \in DigitChars /\ \A j \in 1..(k - 1) : stem[j] \notin DigitChars
             e == RunEnd(stem, i, DigitChars)
         IN  <<SubSeq(stem, 1, i - 1), SubSeq(stem, i, e)>>
             \o SplitDigitRuns(SubSeq(stem, e + 1, Len(stem)))

\* str.isdigit()
IsDigit(text) ==
    text # <<>> /\ \A k \in 1..Len(text) : text[k] \in DigitChars \cup {Superscript2}

RECURSIVE DecimalValue(_)
DecimalValue(text) ==
    IF text = <<>> THEN 0
    ELSE 10 * DecimalValue(SubSeq(text, 1, Len(text) - 1)) + DigitValue(text[Len(text)])

\* int(text) raises ValueError unless every character is a decimal digit
IntRaises(text) == \E k \in 1..Len(text) : text[k] \notin DigitChars

\* one element of the key: int(text) if text.isdigit() else text.lower()
KeyPart(text) ==
    IF IsDigit(text) THEN [isInt |-> TRUE, n |-> DecimalValue(text), s |-> <<>>]
    ELSE [isInt |-> FALSE, n |-> 0, s |-> LowerStr(text)]

NaturalKeyRaises(stem) ==
    \E k \in 1..Len(SplitDigitRuns(stem)) :
        IsDigit(SplitDigitRuns(stem)[k]) /\ IntRaises(SplitDigitRuns(stem)[k])

natural_key(stem) ==
    [k \in 1..Len(SplitDigitRuns(stem)) |-> KeyPart(SplitDigitRuns(stem)[k])]

RECURSIVE StrLess(_, _)
\* str < str
StrLess(a, b) ==
    IF b = <<>> THEN FALSE
    ELSE IF a = <<>> THEN TRUE
    ELSE IF Head(a) # Head(b) THEN CodePoint(Head(a)) < CodePoint(Head(b))
    ELSE StrLess(Tail(a), Tail(b))

RECURSIVE KeyCompare(_, _)
\* list < list: "less", "equal", "greater", or "TypeError" when the first
\* differing elements are an int and a str
KeyCompare(a, b) ==
    IF a = <<>> /\ b = <<>> THEN "equal"
    ELSE IF a = <<>> THEN "less"
    ELSE IF b = <<>> THEN "greater"
    ELSE IF Head(a) = Head(b) THEN KeyCompare(Tail(a), Tail(b))
    ELSE IF Head(a).isInt # Head(b).isInt THEN "TypeError"
    ELSE IF Head(a).isInt
         THEN (IF Head(a).n < Head(b).n THEN "less" ELSE "greater")
    ELSE IF StrLess(Head(a).s, Head(b).s) THEN "less" ELSE "greater"

RECURSIVE InsertByKey(_, _)
\* stable insertion: the new file goes after the files whose key is not greater
InsertByKey(sorted_files, file) ==
    IF sorted_files = <<>> THEN <<file>>
    ELSE IF KeyCompare(natural_key(file), natural_key(sorted_files[Len(sorted_files)])) = "less"
         THEN Append(InsertByKey(SubSeq(sorted_files, 1, Len(sorted_files) - 1), file),
                     sorted_files[Len(sorted_files)])
    ELSE Append(sorted_files, file)

RECURSIVE SortedByNaturalKey(_)
\* sorted(files, key=self.natural_key)
SortedByNaturalKey(files) ==
    IF files = <<>> THEN <<>>
    ELSE InsertByKey(SortedByNaturalKey(SubSeq(files, 1, Len(files) - 1)), files[Len(files)])

\* what sorted() raises on the files of one category, None if nothing
SortRaises(files) ==
    IF \E i \in 1..Len(files) : NaturalKeyRaises(files[i]) THEN "ValueError"
    ELSE IF \E i, j \in 1..Len(files) :
               KeyCompare(natural_key(files[i]), natural_key(files[j])) = "TypeError"
         THEN "TypeError"
    ELSE None

cover_order == <<"erection", "field", "fab", "void">>

RECURSIVE MergeFrom(_, _)
\* the loop over cover_order from position i: every file appended so far
MergeFrom(i, acc) ==
    IF i > Len(cover_order) THEN acc
    ELSE LET category == cover_order[i]
             files    == coverDrawings[category]
         IN  MergeFrom(i + 1,
                       acc \o [k \in 1..Len(files) |->
                                  <<category, SortedByNaturalKey(files)[k]>>])

CoverStems ==
    {<<"E", "2">>, <<"E", "1", "0">>, <<"e", "2">>, <<"1", "0">>,
     <<"E", "1", Superscript2>>}

CoverEntries == {<<c, stem>> : c \in Range(cover_order), stem \in CoverStems}

RECURSIVE FilesOf(_, _)
FilesOf(entries, category) ==
    IF entries = <<>> THEN <<>>
    ELSE (IF Head(entries)[1] = category THEN <<Head(entries)[2]>> ELSE <<>>)
         \o FilesOf(Tail(entries), category)

InitCover ==
    /\ CoreIdle
    /\ EmailIdle
    /\ BuildIdle
    /\ CallsIdle
    /\ ExtractIdle
    /\ \E n \in 0..MaxCoverFiles :
         \E entries \in [1..n -> CoverEntries] :
             /\ \A i, j \in 1..n : i # j => entries[i] # entries[j]
             /\ coverDrawings = [c \in Range(cover_order) |-> FilesOf(entries, c)]
    /\ merged = <<>>
    /\ coverPc = "new"

create_cover_sheet ==
    /\ coverPc = "new"
    /\ LET raising == {i \in 1..Len(cover_order) :
                          SortRaises(coverDrawings[cover_order[i]]) # None}
       IN  IF raising = {}
           THEN /\ merged' = MergeFrom(1, <<>>)
                /\ coverPc' = "written"
           ELSE \* sorted() raises in the first such category; nothing is written
                /\ merged' = merged
                /\ coverPc' = SortRaises(coverDrawings[cover_order[
                                  CHOOSE i \in raising : \A j \in raising : i <= j]])
    /\ UNCHANGED <<coreVars, emailVars, buildVars, callVars, extractVars, coverDrawings>>

NextCover == create_cover_sheet

SpecCover == InitCover /\ [][NextCover]_vars

CategoryRank(c) == CHOOSE i \in 1..Len(cover_order) : cover_order[i] = c

\* the merged files are grouped in category order, each category complete
\* and in natural filename order
MergedInOrder ==
    /\ \A i, j \in 1..Len(merged) :
          i < j => /\ CategoryRank(merged[i][1]) <= CategoryRank(merged[j][1])
                   /\ merged[i][1] = merged[j][1] =>
                         KeyCompare(natural_key(merged[i][2]), natural_key(merged[j][2]))
                             \in {"less", "equal"}
    /\ \A c \in Range(cover_order) :
          Range(FilesOf(merged, c)) = Range(coverDrawings[c])

\* C25: the merged cover sheet has the source files in the category order
\* erection, field, fab, void, within a category in natural filename order
\* with numeric runs compared as numbers (E2 before E10), and computing and
\* comparing the natural keys never fails, whatever the filenames are.
C25_CoverSheetOrder ==
    (coverPc \notin {"idle", "new"}) =>
        /\ coverPc = "written"
        /\ MergedInOrder

\* when nothing raises, the order is the one the claim describes
CoverOrderWhenWritten == (coverPc = "written") => MergedInOrder

----------------------------------------------------------------------------
(* Model and misc area: FolderBuilder._copy_model_files,                   *)
(* _copy_other_folders and _copy_zip_folders (folder_builder.py)           *)

ModelFiles == {"model.ifc", "model.db1"}
OtherFiles == {"bolts.csv", "report.xsr"}
NestedZips == {"nc.zip", "dxf.zip"}

\* self.structure of the three categories, and the XSR subfolder
ModelDir == "Model"
OtherDir == "Lists & Misc"
XsrDir   == "Lists & Misc/XSR Files"
ZipDir   == "Lists & Misc/Nested Zips"

IsXsr(name) == name = "report.xsr"

\* _safe_copy: shutil.copy2 inside try/except, a failure is logged
SafeCopyFiles(folder, names) == {<<folder, n>> : n \in names \ unreadable}

RECURSIVE SafeCopyLog(_, _)
SafeCopyLog(entries, names) ==
    IF names = {} THEN entries
    ELSE LET n == CHOOSE x \in names : TRUE
         IN  SafeCopyLog(IF n \in unreadable
                         THEN append_log_action(entries, "Error copying file", "Error")
                         ELSE entries,
                         names \ {n})

InitBuild ==
    /\ CoreIdle
    /\ EmailIdle
    /\ CoverIdle
    /\ CallsIdle
    /\ ExtractIdle
    /\ misc \in [model : SUBSET ModelFiles, other : SUBSET OtherFiles,
                  zips : SUBSET NestedZips]
    /\ unreadable \in SUBSET (misc.model \cup misc.other \cup misc.zips)
    /\ outDirs = {}
    /\ outFiles = {}
    /\ bLog = <<>>
    /\ bpc = "_copy_model_files"

_copy_model_files ==
    /\ bpc = "_copy_model_files"
    /\ bpc' = "_copy_other_folders"
    /\ IF misc.model = {}
       THEN UNCHANGED <<outDirs, outFiles, bLog>>
       ELSE /\ outDirs' = outDirs \cup {ModelDir}
            /\ outFiles' = outFiles \cup SafeCopyFiles(ModelDir, misc.model)
            /\ bLog' = append_log_action(SafeCopyLog(bLog, misc.model),
                                         "Copied model files", "Success")
    /\ UNCHANGED <<coreVars, emailVars, coverVars, callVars, extractVars, misc, unreadable>>

\* _copy_zip_folders, given the folders, copies and log so far
CopyZipFolders(st) ==
    IF misc.zips = {} THEN st
    ELSE [dirs  |-> st.dirs \cup {ZipDir},
          files |-> st.files \cup SafeCopyFiles(ZipDir, misc.zips),
          log   |-> append_log_action(SafeCopyLog(st.log, misc.zips),
                                      "Copied zip files to /Lists & Misc", "Success")]

\* _copy_other_folders: returns at once when there are no other files,
\* otherwise copies them (.xsr into the subfolder) and then calls
\* _copy_zip_folders
CopyOtherFolders(st) ==
    IF misc.other = {}
    THEN [st EXCEPT !.log = append_log_action(st.log, "No Other/List files to copy", "Info")]
    ELSE LET xsr   == {n \in misc.other : IsXsr(n)}
             after == CopyZipFolders(
                        [dirs  |-> st.dirs \cup {OtherDir}
                                   \cup (IF xsr = {} THEN {} ELSE {XsrDir}),
                         files |-> st.files \cup SafeCopyFiles(XsrDir, xsr)
                                   \cup SafeCopyFiles(OtherDir, misc.other \ xsr),
                         log   |-> SafeCopyLog(st.log, misc.other)])
         IN  [after EXCEPT !.log = append_log_action(after.log, "Copied List/Other files", "Success")]

_copy_other_folders ==
    /\ bpc = "_copy_other_folders"
    /\ bpc' = "built"
    /\ \E st \in {CopyOtherFolders([dirs |-> outDirs, files |-> outFiles, log |-> bLog])} :
          /\ outDirs' = st.dirs
          /\ outFiles' = st.files
          /\ bLog' = st.log
    /\ UNCHANGED <<coreVars, emailVars, coverVars, callVars, extractVars, misc, unreadable>>

NextBuild == _copy_model_files \/ _copy_other_folders

SpecBuild == InitBuild /\ [][NextBuild]_vars

\* C28: after build_folder_structure every file of the zips category is in
\* the nested-zips folder of the misc area and every file of the model
\* category is in the model folder, whether or not the other category has
\* any entries (files the copy itself fails on set aside).
C28_ZipsAndModelCopied ==
    (bpc = "built") =>
        /\ \A n \in misc.zips \ unreadable : <<ZipDir, n>> \in outFiles
        /\ \A n \in misc.model \ unreadable : <<ModelDir, n>> \in outFiles

----------------------------------------------------------------------------
(* Concurrent calls of process_transmittal: the temporary directories      *)
(* (zip_handler.py, backend_facade.py, tool_process_transmittal.py)        *)

MaxCalls == 2
MaxTempNames == 3

CallIds == 1..MaxCalls
\* the names tempfile.mkdtemp(prefix="TransmitPro_") can give
TempNames == 1..MaxTempNames

\* mkdtemp creates a directory that did not exist; the name of a directory
\* removed earlier can come back
MkdtempChoices(fs) == TempNames \ fs

\* a cleanup that removes every TransmitPro_ directory it finds
RmtreeEveryTempDir(fs, temp_dir) == {}

\* shutil.rmtree(temp_dir) of cleanup_temp
Rmtree(fs, temp_dir) == fs \ {temp_dir}

\* cleanup_temp: nothing when the directory is already gone, else rmtree,
\* which may fail and leave the directory
CleanupOutcomes(fs, temp_dir) ==
    IF temp_dir \notin fs THEN {fs} ELSE {Rmtree(fs, temp_dir), fs}

InitCalls ==
    /\ CoreIdle
    /\ EmailIdle
    /\ CoverIdle
    /\ BuildIdle
    /\ ExtractIdle
    /\ procs = [c \in CallIds |-> [at |-> "extract", temp_dir |-> NoDir, success |-> None]]
    /\ tmpfs = {}

\* STEP 1 of call c: ZipHandler.__init__ makes the directory, extract()
\* fills it; job_data["temp_dir"] is set only when extraction succeeds
CallExtract(c) ==
    /\ procs[c].at = "extract"
    /\ \E d \in MkdtempChoices(tmpfs), ok \in BOOLEAN :
          /\ tmpfs' = tmpfs \cup {d}
          /\ procs' = [procs EXCEPT ![c] =
                          IF ok THEN [procs[c] EXCEPT !.at = "detect", !.temp_dir = d]
                          ELSE [procs[c] EXCEPT !.at = "except"]]
    /\ UNCHANGED <<coreVars, emailVars, coverVars, buildVars, extractVars>>

\* STEP 2 of call c: a content scan constructs one more ZipHandler
CallDetect(c) ==
    /\ procs[c].at = "detect"
    /\ procs' = [procs EXCEPT ![c].at = "stages"]
    /\ \/ tmpfs' = tmpfs
       \/ \E d \in MkdtempChoices(tmpfs) : tmpfs' = tmpfs \cup {d}
    /\ UNCHANGED <<coreVars, emailVars, coverVars, buildVars, extractVars>>

\* STEPS 3-9 of call c: they read the working directory; one may raise
CallStages(c) ==
    /\ procs[c].at = "stages"
    /\ \E raised \in BOOLEAN :
          procs' = [procs EXCEPT ![c].at = IF raised THEN "except" ELSE "cleanup"]
    /\ UNCHANGED <<coreVars, emailVars, coverVars, buildVars, extractVars, tmpfs>>

\* STEP 10 of call c: facade.cleanup_temp(job_data, logger)
CallCleanup(c) ==
    /\ procs[c].at = "cleanup"
    /\ tmpfs' \in CleanupOutcomes(tmpfs, procs[c].temp_dir)
    /\ procs' = [procs EXCEPT ![c].at = "return"]
    /\ UNCHANGED <<coreVars, emailVars, coverVars, buildVars, extractVars>>

\* the except handler of call c: cleanup_temp if job_data["temp_dir"] is set
CallExcept(c) ==
    /\ procs[c].at = "except"
    /\ IF procs[c].temp_dir = NoDir THEN tmpfs' = tmpfs
       ELSE tmpfs' \in CleanupOutcomes(tmpfs, procs[c].temp_dir)
    /\ procs' = [procs EXCEPT ![c].at = "done", ![c].success = FALSE]
    /\ UNCHANGED <<coreVars, emailVars, coverVars, buildVars, extractVars>>

\* the success response of call c
CallReturn(c) ==
    /\ procs[c].at = "return"
    /\ procs' = [procs EXCEPT ![c].at = "done", ![c].success = TRUE]
    /\ UNCHANGED <<coreVars, emailVars, coverVars, buildVars, extractVars, tmpfs>>

NextCalls ==
    \E c \in CallIds :
        \/ CallExtract(c)
        \/ CallDetect(c)
        \/ CallStages(c)
        \/ CallCleanup(c)
        \/ CallExcept(c)
        \/ CallReturn(c)

SpecCalls == InitCalls /\ [][NextCalls]_vars

\* call c has extracted into its working directory and has not yet cleaned up
Working(c) ==
    procs[c].temp_dir # NoDir /\ procs[c].at \in {"detect", "stages", "cleanup", "except"}

\* C27: for any interleaving of concurrent calls, each call has its own
\* working directory, distinct from that of every other call, and the cleanup
\* of one call never removes the working directory of a call that has not
\* finished: while a call works, its directory exists.
C27_OwnWorkingDirectory ==
    /\ \A c, d \in CallIds :
          (c # d /\ Working(c) /\ Working(d)) => procs[c].temp_dir # procs[d].temp_dir
    /\ \A c \in CallIds : Working(c) => procs[c].temp_dir \in tmpfs

\* one call has removed its directory and has not yet returned while another
\* call is still working in its own
C27_Witness ==
    \E c, d \in CallIds :
        /\ c # d
        /\ procs[c].at = "return"
        /\ procs[c].temp_dir \notin tmpfs
        /\ Working(d)
        /\ procs[d].temp_dir \in tmpfs

----------------------------------------------------------------------------
(* Extraction of nested archives: ZipHandler.extract and                   *)
(* _extract_nested_zips (transmittal_processing/zip_handler.py).           *)
(* A path is a sequence of names below the working directory, <<>> being   *)
(* the working directory itself. An archive is a set of entries; an entry  *)
(* is a leaf file or a nested archive. The origin of a file is the chain   *)
(* of entry paths that leads to it from the archive given to the handler.  *)

\* nested archives inside the given archive, at all levels together
MaxArchives == 2

LeafEntry(path) == [path |-> path, leaf |-> TRUE, archive |-> {}]
ZipEntry(path, a) == [path |-> path, leaf |-> FALSE, archive |-> a]

LeafSets ==
    {{LeafEntry(<<"E1.pdf">>)},
     {LeafEntry(<<"E1.pdf">>), LeafEntry(<<"a">>)}}
ZipPaths == {<<"a.zip">>, <<"x", "a.zip">>, <<"y", "a.zip">>}

\* Path.stem of the archive names
StemOfName == ("a.zip" :> "a")

RECURSIVE TotalZips(_)
TotalZips(a) ==
    IF \A e \in a : e.leaf THEN 0
    ELSE LET e == CHOOSE x \in a : ~x.leaf
         IN  1 + TotalZips(e.archive) + TotalZips(a \ {e})

RECURSIVE ArchivesAt(_)
\* the well-formed archives holding at most n nested archives, one inside
\* the other or side by side
ArchivesAt(n) ==
    IF n = 0 THEN LeafSets
    ELSE LeafSets \cup
         {a \in UNION {UNION {{leaves \cup {ZipEntry(zp, f[zp]) : zp \in zs} :
                                  f \in [zs -> ArchivesAt(n - Cardinality(zs))]} :
                              zs \in {z \in SUBSET ZipPaths : Cardinality(z) \in 1..n}} :
                       leaves \in LeafSets} :
             TotalZips(a) <= n}

DirNode == [kind |-> "dir", origin |-> <<>>, archive |-> {}]
NodeOf(e, chain) ==
    [kind    |-> IF e.leaf THEN "file" ELSE "zip",
     origin  |-> Append(chain, e.path),
     archive |-> e.archive]

DirOf(path) == SubSeq(path, 1, Len(path) - 1)

\* the zip files root.rglob("*.zip") can come across
ZipsUnder(fs, root) ==
    {q \in DOMAIN fs : fs[q].kind = "zip" /\ IsPrefix(root, q) /\ q # root}

\* entries extractall cannot write: the target is a directory, or a
\* component of its path below dir is a file
Blocked(fs, dir, a) ==
    {e \in a :
        \/ (dir \o e.path) \in DOMAIN fs /\ fs[dir \o e.path].kind = "dir"
        \/ \E k \in 1..(Len(e.path) - 1) :
              LET r == dir \o SubSeq(e.path, 1, k)
              IN  r \in DOMAIN fs /\ fs[r].kind # "dir"}

\* the tree after the entries es of an archive are written under dir:
\* missing directories are made, existing files are overwritten
WriteEntries(fs, dir, es, chain) ==
    LET files == {dir \o e.path : e \in es}
        dirs  == UNION {{dir \o SubSeq(e.path, 1, k) : k \in 0..(Len(e.path) - 1)} : e \in es}
    IN  [q \in DOMAIN fs \cup files \cup dirs |->
            IF q \in files
            THEN NodeOf(CHOOSE e \in es : dir \o e.path = q, chain)
            ELSE IF q \in DOMAIN fs THEN fs[q]
            ELSE DirNode]

\* ZipFile.extractall(dir): everything, or, when an entry cannot be
\* written, the entries written before the exception
Extractall(fs, dir, a, chain) ==
    IF Blocked(fs, dir, a) = {}
    THEN {[fs |-> WriteEntries(fs, dir, a, chain), raised |-> FALSE]}
    ELSE {[fs |-> WriteEntries(fs, dir, es, chain), raised |-> TRUE] :
             es \in SUBSET (a \ Blocked(fs, dir, a))}

\* a call of _extract_nested_zips(root): the zip files under root when the
\* loop starts, and those the loop has handled
NewFrame(fs, root) == [root |-> root, start |-> ZipsUnder(fs, root), visited |-> {}]

InitExtract ==
    /\ CoreIdle
    /\ EmailIdle
    /\ CoverIdle
    /\ BuildIdle
    /\ CallsIdle
    /\ xtop \in ArchivesAt(MaxArchives)
    /\ xfs = (<<>> :> DirNode)
    /\ xstack = <<>>
    /\ xlog = <<>>
    /\ xpc = "new"

\* extract(): extractall into the working directory, then the first call
\* of _extract_nested_zips(self.temp_dir)
extract ==
    /\ xpc = "new"
    /\ \E out \in Extractall(xfs, <<>>, xtop, <<>>) :
          /\ ~out.raised
          /\ xfs' = out.fs
          /\ xstack' = <<NewFrame(out.fs, <<>>)>>
    /\ xpc' = "nested"
    /\ UNCHANGED <<coreVars, emailVars, coverVars, buildVars, callVars, xtop, xlog>>

\* the directory a nested archive is extracted into: (temp_dir / zip_file.stem)
extract_dir(root, zip_file) == Append(root, StemOfName[zip_file[Len(zip_file)]])

\* one iteration of "for zip_file in temp_dir.rglob('*.zip')" in the
\* innermost call: rglob lists directories as it goes, so besides the zip
\* files there at the start it may come across those extracted since
ExtractNestedZip ==
    /\ xpc = "nested"
    /\ LET frame == xstack[Len(xstack)]
       IN  \E zip_file \in ZipsUnder(xfs, frame.root) \ frame.visited :
             LET dir    == extract_dir(frame.root, zip_file)
                 seen   == [frame EXCEPT !.visited = @ \cup {zip_file}]
                 below  == SubSeq(xstack, 1, Len(xstack) - 1)
                 record == [zip |-> zip_file, origin |-> xfs[zip_file].origin, dir |-> dir]
             IN  IF dir \in DOMAIN xfs /\ xfs[dir].kind # "dir"
                 THEN \* mkdir(exist_ok=True) raises FileExistsError on a file
                      /\ xfs' = xfs
                      /\ xstack' = Append(below, seen)
                      /\ xlog' = Append(xlog, record @@ [ok |-> FALSE])
                 ELSE \E out \in Extractall(xfs @@ (dir :> DirNode), dir, xfs[zip_file].archive, xfs[zip_file].origin) :
                      /\ xfs' = out.fs
                      /\ xlog' = Append(xlog, record @@ [ok |-> ~out.raised])
                      /\ xstack' = IF out.raised THEN Append(below, seen)
                                   ELSE Append(Append(below, seen), NewFrame(out.fs, dir))
    /\ UNCHANGED <<coreVars, emailVars, coverVars, buildVars, callVars, xtop, xpc>>

\* the loop of the innermost call ends once every zip file that was there
\* at its start has been handled; the outermost call returns to extract()
EndOfLoop ==
    /\ xpc = "nested"
    /\ LET frame == xstack[Len(xstack)]
       IN  frame.start \subseteq frame.visited
    /\ xstack' = SubSeq(xstack, 1, Len(xstack) - 1)
    /\ xpc' = IF Len(xstack) = 1 THEN "returned" ELSE xpc
    /\ UNCHANGED <<coreVars, emailVars, coverVars, buildVars, callVars, xtop, xfs, xlog>>

NextExtract == extract \/ ExtractNestedZip \/ EndOfLoop

SpecExtract == InitExtract /\ [][NextExtract]_vars

\* the call that is running keeps running
SpecExtractFair == SpecExtract /\ WF_vars(NextExtract)

RECURSIVE LeavesOf(_, _)
\* the origins of the leaf files of an archive and of the archives nested in it
LeavesOf(a, chain) ==
    UNION {IF e.leaf THEN {Append(chain, e.path)}
           ELSE LeavesOf(e.archive, Append(chain, e.path)) : e \in a}

AllLeavesExposed ==
    \A o \in LeavesOf(xtop, <<>>) :
        \E q \in DOMAIN xfs : xfs[q].kind = "file" /\ xfs[q].origin = o

ExtractTerminates == <>(xpc = "returned")

\* C21: for every archive with N levels of nested archives extract()
\* terminates, and after it returns every leaf file of every nested archive
\* at every level exists somewhere under the working directory.
C21_TerminatesAndExposesLeaves ==
    /\ <>(xpc = "returned")
    /\ [](xpc = "returned" => AllLeavesExposed)

\* C29: every nested archive found during extraction is extracted into a
\* directory that is a sibling of the archive file and is named after its
\* stem, so two distinct nested archives located in different directories
\* are never extracted into the same directory.
C29_SiblingDirectory ==
    /\ \A i \in 1..Len(xlog) :
          xlog[i].ok => xlog[i].dir = extract_dir(DirOf(xlog[i].zip), xlog[i].zip)
    /\ \A i, j \in 1..Len(xlog) :
          (/\ xlog[i].ok /\ xlog[j].ok
           /\ xlog[i].origin # xlog[j].origin
           /\ DirOf(xlog[i].zip) # DirOf(xlog[j].zip)) => xlog[i].dir # xlog[j].dir

====
